---- MODULE Spec2Model ----
(***************************************************************************)
(* A model of cloe_launch (eclipse/cloe, cli/cloe_launch): the Environment *)
(* class of exec.py and the Engine operations built on it.                 *)
(*                                                                         *)
(* Strings are sequences of one-character strings, so that str.split,      *)
(* str.join, str.strip, shlex.quote and the KEY=VALUE parser are computed  *)
(* character by character, as the code computes them.  A dict is a         *)
(* sequence of <<key, value>> pairs with distinct keys, in insertion       *)
(* order, as a Python dict is.                                             *)
(***************************************************************************)
EXTENDS Integers, Sequences, FiniteSets, TLC

----------------------------------------------------------------------------
(* Python str and dict primitives                                          *)

\* The characters str.strip() removes that occur in the model's alphabet.
Whitespace == {" ", "\t"}

RECURSIVE IndexFrom(_, _, _)
\* str.find(c) from position i (1-based); 0 when c does not occur.
IndexFrom(s, c, i) ==
    IF i > Len(s) THEN 0
    ELSE IF s[i] = c THEN i
    ELSE IndexFrom(s, c, i + 1)

RECURSIVE Split(_, _)
\* str.split(sep) for a one-character separator: never an empty list.
Split(s, sep) ==
    LET i == IndexFrom(s, sep, 1) IN
    IF i = 0 THEN <<s>>
    ELSE <<SubSeq(s, 1, i - 1)>> \o Split(SubSeq(s, i + 1, Len(s)), sep)

\* str.split(sep, 1): at most one cut, at the first separator.
SplitOnce(s, sep) ==
    LET i == IndexFrom(s, sep, 1) IN
    IF i = 0 THEN <<s>>
    ELSE <<SubSeq(s, 1, i - 1), SubSeq(s, i + 1, Len(s))>>

RECURSIVE Join(_, _)
\* sep.join(list)
Join(list, sep) ==
    IF Len(list) = 0 THEN <<>>
    ELSE IF Len(list) = 1 THEN list[1]
    ELSE list[1] \o <<sep>> \o Join(Tail(list), sep)

\* line.strip() == ""
IsBlank(s) == \A i \in 1..Len(s) : s[i] \in Whitespace

\* line.startswith("#")
StartsWithHash(s) == Len(s) > 0 /\ s[1] = "#"

\* key in dict
Has(d, k) == \E i \in 1..Len(d) : d[i][1] = k

\* dict[key], for a key the dict has
Get(d, k) == d[CHOOSE i \in 1..Len(d) : d[i][1] = k][2]

\* dict[key] = value: an existing key keeps its position, a new key goes last.
Put(d, k, v) ==
    IF Has(d, k)
    THEN [i \in 1..Len(d) |-> IF d[i][1] = k THEN <<k, v>> ELSE d[i]]
    ELSE Append(d, <<k, v>>)

\* The mapping a dict stands for: what dict == dict compares.
AsMap(d) == {d[i] : i \in 1..Len(d)}

RECURSIVE FromKeys(_, _)
\* list(OrderedDict.fromkeys(list)): each element once, in first-seen order.
\* acc holds the elements kept so far.
FromKeys(list, acc) ==
    IF Len(list) = 0 THEN acc
    ELSE IF \E i \in 1..Len(acc) : acc[i] = list[1]
         THEN FromKeys(Tail(list), acc)
         ELSE FromKeys(Tail(list), Append(acc, list[1]))

\* The characters shlex.quote leaves alone: [A-Za-z0-9_@%+=:,./-].
SafeChars ==
    {"a", "b", "c", "d", "e", "f", "g", "h", "i", "j", "k", "l", "m", "n", "o",
     "p", "q", "r", "s", "t", "u", "v", "w", "x", "y", "z",
     "A", "B", "C", "D", "E", "F", "G", "H", "I", "J", "K", "L", "M", "N", "O",
     "P", "Q", "R", "S", "T", "U", "V", "W", "X", "Y", "Z",
     "0", "1", "2", "3", "4", "5", "6", "7", "8", "9",
     "_", "@", "%", "+", "=", ":", ",", ".", "/", "-"}

RECURSIVE ReplaceQuote(_)
\* s.replace("'", "'\"'\"'")
ReplaceQuote(s) ==
    IF Len(s) = 0 THEN <<>>
    ELSE (IF s[1] = "'" THEN <<"'", "\"", "'", "\"", "'">> ELSE <<s[1]>>)
         \o ReplaceQuote(Tail(s))

\* A mutant of Quote: every value is wrapped in single quotes.
QuoteAlways(s) == <<"'">> \o ReplaceQuote(s) \o <<"'">>

\* shlex.quote(s)
Quote(s) ==
    IF Len(s) = 0 THEN <<"'", "'">>
    ELSE IF \A i \in 1..Len(s) : s[i] \in SafeChars THEN s
    ELSE <<"'">> \o ReplaceQuote(s) \o <<"'">>

----------------------------------------------------------------------------
(* Names and values used by the code                                       *)

K_PATH == <<"P", "A", "T", "H">>
K_LD_LIBRARY_PATH == <<"L", "D", "_", "L", "I", "B", "R", "A", "R", "Y", "_", "P", "A", "T", "H">>
K_CLOE_SHELL == <<"C", "L", "O", "E", "_", "S", "H", "E", "L", "L">>
K_CLOE_ENGINE == <<"C", "L", "O", "E", "_", "E", "N", "G", "I", "N", "E">>
K_VTD_ROOT == <<"V", "T", "D", "_", "R", "O", "O", "T">>
K_SECRET == <<"S", "E", "C", "R", "E", "T">>

\* Environment._sep (os.pathsep on POSIX)
Sep == ":"

\* Environment._shell_env as the class defines it: {"PATH": "/bin:/usr/bin"}
ClassShellEnv ==
    << <<K_PATH, <<"/", "b", "i", "n", ":", "/", "u", "s", "r", "/", "b", "i", "n">> >> >>

\* Environment._preserve: each entry a regular expression, here a literal
\* name or a prefix followed by ".*"; the two alternations are written out.
DefaultPreserve == <<
    [lit |-> <<"C", "L", "O", "E", "_", "S", "H", "E", "L", "L">>, wild |-> FALSE],
    [lit |-> <<"X", "D", "G", "_">>, wild |-> TRUE],
    [lit |-> <<"H", "O", "M", "E">>, wild |-> FALSE],
    [lit |-> <<"U", "S", "E", "R">>, wild |-> FALSE],
    [lit |-> <<"L", "A", "N", "G", "U", "A", "G", "E">>, wild |-> FALSE],
    [lit |-> <<"L", "A", "N", "G">>, wild |-> FALSE],
    [lit |-> <<"L", "C", "_">>, wild |-> TRUE],
    [lit |-> <<"Z", "D", "O", "T", "D", "I", "R">>, wild |-> FALSE],
    [lit |-> <<"P", "W", "D">>, wild |-> FALSE],
    [lit |-> <<"X", "A", "U", "T", "H", "O", "R", "I", "T", "Y">>, wild |-> FALSE],
    [lit |-> <<"D", "I", "S", "P", "L", "A", "Y">>, wild |-> FALSE],
    [lit |-> <<"C", "O", "L", "O", "R", "T", "E", "R", "M">>, wild |-> FALSE],
    [lit |-> <<"T", "E", "R", "M">>, wild |-> FALSE],
    [lit |-> <<"T", "E", "R", "M", "I", "N", "A", "L">>, wild |-> FALSE],
    [lit |-> <<"S", "_", "C", "O", "L", "O", "R", "S">>, wild |-> FALSE],
    [lit |-> <<"H", "T", "T", "P", "_", "P", "R", "O", "X", "Y">>, wild |-> FALSE],
    [lit |-> <<"H", "T", "T", "P", "S", "_", "P", "R", "O", "X", "Y">>, wild |-> FALSE],
    [lit |-> <<"F", "T", "P", "_", "P", "R", "O", "X", "Y">>, wild |-> FALSE],
    [lit |-> <<"S", "O", "C", "K", "S", "_", "P", "R", "O", "X", "Y">>, wild |-> FALSE],
    [lit |-> <<"N", "O", "_", "P", "R", "O", "X", "Y">>, wild |-> FALSE],
    [lit |-> <<"h", "t", "t", "p", "_", "p", "r", "o", "x", "y">>, wild |-> FALSE],
    [lit |-> <<"h", "t", "t", "p", "s", "_", "p", "r", "o", "x", "y">>, wild |-> FALSE],
    [lit |-> <<"f", "t", "p", "_", "p", "r", "o", "x", "y">>, wild |-> FALSE],
    [lit |-> <<"s", "o", "c", "k", "s", "_", "p", "r", "o", "x", "y">>, wild |-> FALSE],
    [lit |-> <<"n", "o", "_", "p", "r", "o", "x", "y">>, wild |-> FALSE]
>>

----------------------------------------------------------------------------
(* class Environment                                                       *)

\* regex.match(key) for the regex "^(p1|p2|...)$" built from the list.
PreserveMatches(preserve, key) ==
    \E i \in 1..Len(preserve) :
        IF preserve[i].wild
        THEN /\ Len(key) >= Len(preserve[i].lit)
             /\ SubSeq(key, 1, Len(preserve[i].lit)) = preserve[i].lit
        ELSE key = preserve[i].lit

RECURSIVE InitShellEnv(_, _, _)
\* Environment._init_shell_env: every variable of base whose name matches
\* the allow-list is written into the class-level _shell_env.
InitShellEnv(senv, preserve, base) ==
    IF Len(base) = 0 THEN senv
    ELSE InitShellEnv(
            IF PreserveMatches(preserve, base[1][1])
            THEN Put(senv, base[1][1], base[1][2])
            ELSE senv,
            preserve, Tail(base))

RECURSIVE ParseLinesKeepFirst(_, _)
ParseLinesKeepFirst(d, lines) ==
    IF Len(lines) = 0 THEN d
    ELSE LET line == lines[1]
             kv == SplitOnce(line, "=")
         IN  IF IsBlank(line) \/ StartsWithHash(line) \/ Len(kv) < 2
                \/ Has(d, kv[1])
             THEN ParseLinesKeepFirst(d, Tail(lines))
             ELSE ParseLinesKeepFirst(Put(d, kv[1], kv[2]), Tail(lines))

\* A mutant of InitFromStr: a key that is already set keeps its value.
InitFromStrKeepFirst(d, text) == ParseLinesKeepFirst(d, Split(text, "\n"))

RECURSIVE ParseLinesStop(_, _)
ParseLinesStop(d, lines) ==
    IF Len(lines) = 0 THEN d
    ELSE LET line == lines[1]
             kv == SplitOnce(line, "=")
         IN  IF IsBlank(line) \/ StartsWithHash(line)
             THEN ParseLinesStop(d, Tail(lines))
             ELSE IF Len(kv) < 2 THEN d
             ELSE ParseLinesStop(Put(d, kv[1], kv[2]), Tail(lines))

\* A variant of InitFromStr: parsing ends at the first line without "=".
InitFromStrStopAtBadLine(d, text) == ParseLinesStop(d, Split(text, "\n"))

RECURSIVE ParseLines(_, _)
\* The loop of init_from_str over data.split("\n"): blank lines and lines
\* starting with "#" are passed over; kv[1] of a line without "=" raises
\* IndexError, which is caught, so the line sets nothing.
ParseLines(d, lines) ==
    IF Len(lines) = 0 THEN d
    ELSE LET line == lines[1]
             kv == SplitOnce(line, "=")
         IN  IF IsBlank(line) \/ StartsWithHash(line) \/ Len(kv) < 2
             THEN ParseLines(d, Tail(lines))
             ELSE ParseLines(Put(d, kv[1], kv[2]), Tail(lines))

\* Environment.init_from_str
InitFromStr(d, text) == ParseLines(d, Split(text, "\n"))

\* A mutant of DeduplicateList: the last occurrence of a segment is kept.
DeduplicateListKeepLast(d, key) ==
    IF ~Has(d, key) THEN d
    ELSE LET segs == Split(Get(d, key), Sep)
             rev(q) == [i \in 1..Len(q) |-> q[Len(q) + 1 - i]]
         IN  Put(d, key, Join(rev(FromKeys(rev(segs), <<>>)), Sep))

\* A variant of PathPrepend: the separator stands between the value and the
\* list.
PathPrependSepBetween(d, key, value) ==
    IF Has(d, key) THEN Put(d, key, value \o <<Sep>> \o Get(d, key))
    ELSE Put(d, key, value)

\* Environment.path_prepend
PathPrepend(d, key, value) ==
    IF Has(d, key) THEN Put(d, key, <<Sep>> \o value \o Get(d, key))
    ELSE Put(d, key, value)

\* Environment.get_list of a key that is set
GetList(d, key) == Split(Get(d, key), Sep)

\* Environment.deduplicate_list
DeduplicateList(d, key) ==
    IF ~Has(d, key) THEN d
    ELSE Put(d, key, Join(FromKeys(Split(Get(d, key), Sep), <<>>), Sep))

RECURSIVE Export(_)
\* Environment.export: the text written, one KEY=quoted-value line per entry.
Export(d) ==
    IF Len(d) = 0 THEN <<>>
    ELSE d[1][1] \o <<"=">> \o Quote(d[1][2]) \o <<"\n">> \o Export(Tail(d))

RECURSIVE EnvDump(_)
\* What env(1) prints for an environment: one KEY=value line per variable.
EnvDump(d) ==
    IF Len(d) = 0 THEN <<>>
    ELSE d[1][1] \o <<"=">> \o d[1][2] \o <<"\n">> \o EnvDump(Tail(d))

RECURSIVE ApplyAssigns(_, _)
\* Sourcing a script whose effect is a list of exported assignments.
ApplyAssigns(env, assigns) ==
    IF Len(assigns) = 0 THEN env
    ELSE ApplyAssigns(Put(env, assigns[1][1], assigns[1][2]), Tail(assigns))

RECURSIVE SourceFiles(_, _)
\* "source f1 && source f2 && ...": the files in the given order, ending at
\* the first one that returns non-zero.
SourceFiles(files, env) ==
    IF Len(files) = 0 THEN [returncode |-> 0, env |-> env]
    ELSE IF files[1].rc # 0 THEN [returncode |-> files[1].rc, env |-> env]
    ELSE SourceFiles(Tail(files), ApplyAssigns(env, files[1].assigns))

\* The child started by init_from_shell: "source ... && env" in a shell whose
\* starting environment is _shell_env.  env runs only if every source
\* succeeded, so a failed run prints nothing.
ShellCommand(files, senv) ==
    LET r == SourceFiles(files, senv) IN
    [returncode |-> r.returncode,
     stdout |-> IF r.returncode = 0 THEN EnvDump(r.env) ELSE <<>>]

\* A variant of RunCmd: a non-zero exit never raises.
RunCmdLenient(result, must_succeed) ==
    [raised |-> "none", result |-> result]

\* utility.run_cmd: a non-zero exit raises ChildProcessError when
\* must_succeed, otherwise the result is returned.
RunCmd(result, must_succeed) ==
    [raised |-> IF result.returncode # 0 /\ must_succeed
                THEN "ChildProcessError" ELSE "none",
     result |-> result]

\* Environment.init_from_shell: run_cmd is called without must_succeed, so
\* with its default True.
InitFromShell(d, files, senv) ==
    LET r == RunCmd(ShellCommand(files, senv), TRUE) IN
    IF r.raised # "none"
    THEN [raised |-> r.raised, data |-> d]
    ELSE [raised |-> "none", data |-> InitFromStr(d, r.result.stdout)]

RECURSIVE InitFromFiles(_, _)
\* The loop "for file in env: self.init_from_file(file)".
InitFromFiles(d, files) ==
    IF Len(files) = 0 THEN d
    ELSE InitFromFiles(InitFromStr(d, files[1].text), Tail(files))

\* Environment.__init__: the new instance's _data, the class-level
\* _shell_env it leaves behind, and the exception it raised, if any.
\* arg.kind is "list" (a path or a list of paths), "dict" or "none";
\* preserve.none stands for preserve=None.
EnvironmentNew(arg, preserve, source_file, senv, base) ==
    LET plist == IF preserve.none THEN DefaultPreserve ELSE preserve.list
        senv1 == InitShellEnv(senv, plist, base)
    IN  IF arg.kind = "list"
        THEN LET r == IF source_file
                      THEN InitFromShell(<<>>, arg.files, senv1)
                      ELSE [raised |-> "none",
                            data |-> InitFromFiles(<<>>, arg.files)]
             IN  [raised |-> r.raised,
                  shell_env |-> senv1,
                  data |-> IF r.raised = "none" /\ Len(arg.files) > 1
                           THEN DeduplicateList(r.data, K_PATH)
                           ELSE r.data]
        ELSE IF arg.kind = "dict"
        THEN [raised |-> "none", shell_env |-> senv1, data |-> arg.map]
        ELSE [raised |-> "none", shell_env |-> senv1, data |-> base]

----------------------------------------------------------------------------
(* The process: its environment and the Environment instance under study   *)

VARIABLES
    os_environ,   \* os.environ of the running process, a dict
    shell_env,    \* Environment._shell_env, the class attribute, a dict
    arg,          \* what the Environment under study is constructed from
    env_pc,       \* "new", "constructed", "raised", "exported", "reloaded"
    data,         \* its _data
    raised,       \* the exception its constructor raised, or "none"
    exported,     \* the text export() wrote
    reloaded,     \* _data of the Environment read back from that text
    dedup_key,    \* the key deduplicate_list was called with
    dedup_hist,   \* _data before the first call and after each call
    prepend,      \* the call of path_prepend: its key, its value, _data before
    conc,         \* two invocations at once on one runtime directory: of each
                  \* its position, what it wrote and what came of it
    process,      \* transient_system: the child, its program and how far it is
    pipes,        \* the child's stdout and stderr: what is in the pipe, and
                  \* whether the child has the writing end open
    registered,   \* the streams registered with the poll object
    alive,        \* the local variable alive
    events,       \* the local variable events, the result of the last poll
    todo,         \* what the for loop has yet to go through
    ts_result,    \* the TransientResult
    ts_pc,        \* the position in transient_system
    hups          \* how often each stream's hang-up was counted

pollVars == <<process, pipes, registered, alive, events, todo, ts_result, ts_pc, hups>>

moreVars == <<prepend, conc, pollVars>>

\* transient_system is not called.
PollOff ==
    /\ process = <<>>
    /\ pipes = <<>>
    /\ registered = {}
    /\ alive = 0
    /\ events = <<>>
    /\ todo = <<>>
    /\ ts_result = <<>>
    /\ ts_pc = "off"
    /\ hups = <<>>

\* The invocations that run at once.
Procs == {1, 2}

\* An invocation that is not run, and one that is about to prepare the
\* runtime directory.
NoInvocation ==
    [pc |-> "off", wrote |-> {}, missing |-> {}, disturbed |-> FALSE,
     raised |-> "none", env |-> <<>>]
NoConc == [p \in Procs |-> NoInvocation]

\* No call of path_prepend yet.
NoPrepend == [key |-> <<>>, value |-> <<>>, before |-> <<>>]

envVars == <<os_environ, shell_env, arg, env_pc, data, raised, exported,
             reloaded, dedup_key, dedup_hist, moreVars>>

VARIABLES
    runtime_dir,  \* the profile's runtime directory: [exists, files], files a
                  \* function from the names present to their contents
    plugin_files, \* the setup files found in <libdir>/cloe, by plugin name
    op,           \* the operation in progress and its arguments
    pc,           \* its position
    env,          \* _data of the Environment the operation works on
    subclasses,   \* PluginSetup.__subclasses__() of the running process
    plugin_setups,\* the setups the operation instantiated
    result,       \* returncode of the CompletedProcess exec returns
    exit_status,  \* exit status of the process, -1 while it has none
    eng_raised,   \* the exception that ended the operation, or "none"
    log,          \* what the operation did so far, in order
    dir0,         \* the runtime directory as the operation found it
    dest,         \* deploy: the destination, as found and what was put there
    uninstaller   \* deploy: what uninstall.sh was written from

engVars == <<runtime_dir, plugin_files, op, pc, env, subclasses, plugin_setups,
             result, exit_status, eng_raised, log, dir0, dest, uninstaller>>

vars == <<envVars, engVars, moreVars>>

\* Bounds of the inputs.
MaxValLen == 2
MaxSegs == 3
MaxDedup == 2

ValChars == {"a", ":", " ", "'", "="}
Segs == {<<>>, <<"a">>, <<"b">>}
Strings(S, n) == UNION {[1..k -> S] : k \in 0..n}
PlainValues == Strings(ValChars, MaxValLen)
PathValues == {Join(l, Sep) : l \in UNION {[1..k -> Segs] : k \in 1..MaxSegs}}
Values == PlainValues \cup PathValues
SmallValues == {<<"b">>, <<"a", ":", "a">>}

DictKeys == {K_PATH, <<"K">>, <<"#", "K">>}
FileKeys == {K_PATH, K_LD_LIBRARY_PATH, <<"K">>}
DedupKeys == {K_PATH, K_LD_LIBRARY_PATH}

\* A file: the text a literal read sees, and what sourcing it in a shell
\* does (the assignments it exports, the status it returns).
File(assigns, rc) == [assigns |-> assigns, rc |-> rc, text |-> EnvDump(assigns)]

NoPreserve == [none |-> TRUE, list |-> <<>>]

DictArgs ==
    {[kind |-> "dict", map |-> << <<k, v>> >>, files |-> <<>>, source_file |-> FALSE] :
        k \in DictKeys, v \in Values}
    \cup
    {[kind |-> "dict", map |-> << <<k1, v1>>, <<k2, v2>> >>, files |-> <<>>,
      source_file |-> FALSE] :
        <<k1, k2>> \in {kk \in DictKeys \X DictKeys : kk[1] # kk[2]},
        <<v1, v2>> \in Values \X SmallValues}

OneFile(rcs, vals) ==
    {<<File(<< <<k, v>> >>, rc)>> : k \in FileKeys, v \in vals, rc \in rcs}

TwoFiles(rcs, vals) ==
    {<<File(<< <<k1, v1>> >>, rc[1]), File(<< <<k2, v2>> >>, rc[2])>> :
        <<k1, k2>> \in FileKeys \X FileKeys,
        <<v1, v2>> \in SmallValues \X vals,
        rc \in rcs}

\* Files that source with status 0 are read in both modes; a file that
\* returns non-zero matters only to the shell.
FileArgs ==
    {[kind |-> "list", map |-> <<>>, files |-> fs, source_file |-> sf] :
        fs \in OneFile({0}, Values) \cup TwoFiles({<<0, 0>>}, Values),
        sf \in BOOLEAN}
    \cup
    {[kind |-> "list", map |-> <<>>, files |-> fs, source_file |-> TRUE] :
        fs \in OneFile({1}, SmallValues)
               \cup TwoFiles({<<0, 1>>, <<1, 0>>}, SmallValues)}

\* Lines of a KEY=VALUE file as anything may have written it: with "=" in
\* the value, blank, a comment, without "=", with blanks around, with quotes.
TextLines ==
    {<<"K", "=", "a">>, <<"K", "=", "b", "=", "c">>, <<>>, <<" ", " ">>,
     <<"#", "K", "=", "x">>, <<"J">>, <<" ", "K", "=", "a", " ">>,
     <<"L", "=", "'", "b", "'">>}

\* The most lines a text has.
MaxLines == 3

Texts == {Join(l, "\n") : l \in UNION {[1..k -> TextLines] : k \in 1..MaxLines}}

\* One file of such text, read literally.
TextArgs ==
    {[kind |-> "list", map |-> <<>>,
      files |-> <<[assigns |-> <<>>, rc |-> 0, text |-> t]>>,
      source_file |-> FALSE] : t \in Texts}

ParentEnvs ==
    {<<>>,
     << <<K_CLOE_SHELL, <<"/", "r">> >>, <<K_SECRET, <<"s">> >> >>}

InitEnv ==
    /\ os_environ \in ParentEnvs
    /\ shell_env = ClassShellEnv
    /\ arg \in DictArgs \cup FileArgs \cup TextArgs
    /\ env_pc = "new"
    /\ data = <<>>
    /\ raised = "none"
    /\ exported = <<>>
    /\ reloaded = <<>>
    /\ dedup_key = <<>>
    /\ dedup_hist = <<>>
    /\ prepend = NoPrepend
    /\ conc = NoConc
    /\ PollOff
    /\ runtime_dir = [exists |-> FALSE, files |-> <<>>]
    /\ plugin_files = <<>>
    /\ op = <<>>
    /\ pc = "off"
    /\ env = <<>>
    /\ subclasses = <<>>
    /\ plugin_setups = <<>>
    /\ result = 0
    /\ exit_status = -1
    /\ eng_raised = "none"
    /\ log = <<>>
    /\ dir0 = runtime_dir
    /\ dest = <<>>
    /\ uninstaller = <<>>

\* Environment(arg, source_file=...)
Construct ==
    /\ env_pc = "new"
    /\ LET e == EnvironmentNew(arg, NoPreserve, arg.source_file, shell_env, os_environ)
       IN  /\ shell_env' = e.shell_env
           /\ raised' = e.raised
           /\ data' = e.data
           /\ env_pc' = IF e.raised = "none" THEN "constructed" ELSE "raised"
    /\ UNCHANGED <<os_environ, arg, exported, reloaded, dedup_key, dedup_hist,
                   engVars, moreVars>>

\* env.deduplicate_list(key)
Deduplicate(key) ==
    /\ env_pc = "constructed"
    /\ Len(dedup_hist) <= MaxDedup
    /\ dedup_hist = <<>> \/ key = dedup_key
    /\ data' = DeduplicateList(data, key)
    /\ dedup_key' = key
    /\ dedup_hist' = (IF dedup_hist = <<>> THEN <<data>> ELSE dedup_hist) \o <<data'>>
    /\ UNCHANGED <<os_environ, shell_env, arg, env_pc, raised, exported, reloaded,
                   engVars, moreVars>>

\* env.export(path)
ExportFile ==
    /\ env_pc = "constructed"
    /\ dedup_hist = <<>>
    /\ exported' = Export(data)
    /\ env_pc' = "exported"
    /\ UNCHANGED <<os_environ, shell_env, arg, data, raised, reloaded, dedup_key,
                   dedup_hist, engVars, moreVars>>

\* Environment(path, source_file=False) on the exported file
Reload ==
    /\ env_pc = "exported"
    /\ LET f == [assigns |-> <<>>, rc |-> 0, text |-> exported]
           e == EnvironmentNew(
                    [kind |-> "list", map |-> <<>>, files |-> <<f>>, source_file |-> FALSE],
                    NoPreserve, FALSE, shell_env, os_environ)
       IN  /\ reloaded' = e.data
           /\ shell_env' = e.shell_env
    /\ env_pc' = "reloaded"
    /\ UNCHANGED <<os_environ, arg, data, raised, exported, dedup_key, dedup_hist,
                   engVars, moreVars>>

\* The values path_prepend is called with.
PrependValues == {<<"v">>, <<"a">>}

\* env.path_prepend(key, value) on an Environment made from a dict
PathPrependStep(key, value) ==
    /\ env_pc = "constructed"
    /\ dedup_hist = <<>>
    /\ arg.kind = "dict"
    /\ data' = PathPrepend(data, key, value)
    /\ prepend' = [key |-> key, value |-> value, before |-> data]
    /\ env_pc' = "prepended"
    /\ UNCHANGED <<os_environ, shell_env, arg, raised, exported, reloaded,
                   dedup_key, dedup_hist, engVars, conc, pollVars>>

NextEnv ==
    \/ Construct
    \/ \E key \in DedupKeys, value \in PrependValues : PathPrependStep(key, value)
    \/ \E key \in DedupKeys : Deduplicate(key)
    \/ ExportFile
    \/ Reload

SpecEnv == InitEnv /\ [][NextEnv]_vars

----------------------------------------------------------------------------
(* class Engine: the runtime directory                                     *)

K_CLOE_PROFILE_HASH == <<"C", "L", "O", "E", "_", "P", "R", "O", "F", "I", "L", "E", "_", "H", "A", "S", "H">>
K_CLOE_PLUGIN_PATH == <<"C", "L", "O", "E", "_", "P", "L", "U", "G", "I", "N", "_", "P", "A", "T", "H">>
K_SUMO_ROOT == <<"S", "U", "M", "O", "_", "R", "O", "O", "T">>
K_VI_LIC_SERVER == <<"V", "I", "_", "L", "I", "C", "_", "S", "E", "R", "V", "E", "R">>

\* str(self.runtime_env_path()) and self.profile, for a runtime directory /r
\* of a profile with hash h.
RuntimeEnvPath == <<"/", "r", "/", "e", "n", "v">>
ProfileHash == <<"h">>

\* Path(bindir) / "cloe-engine" and Path(libdir) / "cloe"
EngineName == <<"/", "c", "l", "o", "e", "-", "e", "n", "g", "i", "n", "e">>
CloeSubdir == <<"/", "c", "l", "o", "e">>

\* The directories of the file system that hold a cloe-engine executable,
\* and those that hold a cloe subdirectory.
EngineDirs == {<<"/", "e">>, <<"/", "f">>}
PluginLibDirs == {<<"/", "l">>}

ListArg(files) == [kind |-> "list", map |-> <<>>, files |-> files, source_file |-> TRUE]
DictArg(map) == [kind |-> "dict", map |-> map, files |-> <<>>, source_file |-> TRUE]

\* A KEY=VALUE file written by Environment.export.
EnvFile(d) == [assigns |-> d, rc |-> 0, text |-> Export(d)]

\* A file whose content plays no part.
Plain == [assigns |-> <<>>, rc |-> 0, text |-> <<>>]

\* A variant of SnapshotExists: the snapshot is never found.
SnapshotNever == FALSE

\* Engine.runtime_env_path().exists()
SnapshotExists == runtime_dir.exists /\ "environment_all.sh.env" \in DOMAIN runtime_dir.files

\* A variant of ExtractEnginePath: the last PATH entry that holds cloe-engine.
ExtractEnginePathLast(e) ==
    LET dirs == IF Has(e, K_PATH) THEN Split(Get(e, K_PATH), Sep) ELSE <<>>
        hits == {i \in 1..Len(dirs) : dirs[i] \in EngineDirs}
    IN  IF hits = {}
        THEN [found |-> FALSE, path |-> <<>>]
        ELSE [found |-> TRUE,
              path |-> dirs[CHOOSE i \in hits : \A j \in hits : i >= j] \o EngineName]

\* Engine._extract_engine_path: the first PATH entry that holds cloe-engine;
\* found is FALSE where the code calls sys.exit(2).
ExtractEnginePath(e) ==
    LET dirs == IF Has(e, K_PATH) THEN Split(Get(e, K_PATH), Sep) ELSE <<>>
        hits == {i \in 1..Len(dirs) : dirs[i] \in EngineDirs}
    IN  IF hits = {}
        THEN [found |-> FALSE, path |-> <<>>]
        ELSE [found |-> TRUE,
              path |-> dirs[CHOOSE i \in hits : \A j \in hits : i <= j] \o EngineName]

RECURSIVE PluginPathsOf(_)
PluginPathsOf(dirs) ==
    IF Len(dirs) = 0 THEN <<>>
    ELSE (IF dirs[1] \in PluginLibDirs THEN <<dirs[1] \o CloeSubdir>> ELSE <<>>)
         \o PluginPathsOf(Tail(dirs))

\* Engine._extract_plugin_paths: every LD_LIBRARY_PATH entry with a cloe
\* subdirectory, in order.
ExtractPluginPaths(e) ==
    PluginPathsOf(IF Has(e, K_LD_LIBRARY_PATH)
                  THEN Split(Get(e, K_LD_LIBRARY_PATH), Sep) ELSE <<>>)

\* Environment.path_set
PathSet(d, key, values) == Put(d, key, Join(values, Sep))

\* Engine._write_cloe_env, up to the export: kind is "ok" (cloe_env is to be
\* written), "raise" (what names the exception) or "exit" (sys.exit(code)).
WriteCloeEnv(files, senv, base, abort) ==
    IF "conanrun.sh" \notin DOMAIN files /\ "activate_run.sh" \notin DOMAIN files
    THEN [kind |-> "raise", what |-> "RuntimeError", code |-> 0,
          shell_env |-> senv, cloe_env |-> <<>>]
    ELSE
    LET src == IF "conanrun.sh" \in DOMAIN files
               THEN files["conanrun.sh"] ELSE files["activate_run.sh"]
        e == EnvironmentNew(ListArg(<<src>>), NoPreserve, TRUE, senv, base)
    IN  IF e.raised # "none"
        THEN [kind |-> "raise", what |-> e.raised, code |-> 0,
              shell_env |-> e.shell_env, cloe_env |-> <<>>]
        ELSE IF Has(e.data, K_CLOE_SHELL) /\ abort
        THEN [kind |-> "exit", what |-> "recursive shell", code |-> 2,
              shell_env |-> e.shell_env, cloe_env |-> <<>>]
        ELSE
        LET c == EnvironmentNew(DictArg(<<>>), NoPreserve, TRUE, e.shell_env, base)
            eng == ExtractEnginePath(e.data)
        IN  IF ~eng.found
            THEN [kind |-> "exit", what |-> "no engine", code |-> 2,
                  shell_env |-> c.shell_env, cloe_env |-> <<>>]
            ELSE [kind |-> "ok", what |-> "none", code |-> 0,
                  shell_env |-> c.shell_env,
                  cloe_env |->
                    PathSet(
                      Put(Put(Put(c.data, K_CLOE_SHELL, RuntimeEnvPath),
                              K_CLOE_PROFILE_HASH, ProfileHash),
                          K_CLOE_ENGINE, eng.path),
                      K_CLOE_PLUGIN_PATH, ExtractPluginPaths(e.data))]

\* The files export_vars_from_file is called on in activate_all.sh, in order.
ActivateEnvFiles ==
    <<"environment.sh.env", "environment_run.sh.env",
      "environment_cloe_launch.sh.env", "environment_cloe.sh.env">>

RECURSIVE ExportVarsFrom(_, _)
\* export_vars_from_file on each name: "eval echo" undoes the quoting export
\* put around a value, so the entries exported are those the file was
\* written from.
ExportVarsFrom(files, names) ==
    IF Len(names) = 0 THEN <<>>
    ELSE (IF names[1] \in DOMAIN files THEN files[names[1]].assigns ELSE <<>>)
         \o ExportVarsFrom(files, Tail(names))

\* What sourcing activate_all.sh does: it sources conanrun.sh, then exports
\* the entries of each KEY=VALUE file that exists; a missing or failing file
\* does not end the script, whose status is that of its last command, unset.
ActivateAll(files) ==
    [assigns |->
        (IF "conanrun.sh" \in DOMAIN files /\ files["conanrun.sh"].rc = 0
         THEN files["conanrun.sh"].assigns ELSE <<>>)
        \o ExportVarsFrom(files, ActivateEnvFiles),
     rc |-> 0,
     text |-> <<>>]

\* What the package manager's install step leaves in the install folder:
\* out.gen names the generators that ran, out.path the PATH the generated
\* script sets, out.src_rc the status sourcing that script returns.
ConanFiles(out, with_json) ==
    LET script == [assigns |-> << <<K_PATH, out.path>>,
                                  <<K_LD_LIBRARY_PATH, <<"/", "l">> >> >>,
                   rc |-> out.src_rc, text |-> <<>>]
        names == (IF out.gen \in {"new", "both"} THEN {"conanrun.sh"} ELSE {})
                 \cup (IF out.gen \in {"old", "both"}
                       THEN {"activate_run.sh", "environment_run.sh.env"} ELSE {})
                 \cup (IF with_json THEN {"conanbuildinfo.json"} ELSE {})
    IN  [n \in names |->
            IF n = "environment_run.sh.env" THEN EnvFile(script.assigns)
            ELSE IF n = "conanbuildinfo.json" THEN Plain
            ELSE script]

\* One entry of the log: what was done, to or by what, for a hook or a
\* started program the environment it saw, for an ended program its code.
Event(ev, who, e) == [ev |-> ev, who |-> who, env |-> e, code |-> 0, cmd |-> <<>>]

NoEnv == <<>>

\* Whether the operation goes through _prepare_runtime_env with_json.
WithJson == op.name = "deploy"

----------------------------------------------------------------------------
(* class Engine: the operations, one action per step                       *)

\* The exit codes a target ends with; a negative returncode is what
\* subprocess reports for a target killed by that signal.
ChildCodes == {0, 255, -9}

\* Arguments for the target: a subcommand, and one with an anonymous file
\* between two ordinary arguments.
A_run == <<"r", "u", "n">>
A_dev_fd_3 == <<"/", "d", "e", "v", "/", "f", "d", "/", "3">>
PlainArgs == <<A_run>>
RelayArgs == <<A_run, A_dev_fd_3, <<"x">> >>

\* The runs of the target: how it ends and the arguments it is given.
SpawnCases == (ChildCodes \X {PlainArgs}) \cup {<<0, RelayArgs>>}

\* The setup files of a plugin directory in the order iterdir lists them:
\* none, or those of sumo and vtd.
PluginFileSets == {<<>>, <<"sumo", "vtd">>}

\* The variables each setup's environment() hook preserves.
PreservedBy(plugin) ==
    IF plugin = "vtd" THEN <<K_VTD_ROOT, K_VI_LIC_SERVER>>
    ELSE IF plugin = "sumo" THEN <<K_SUMO_ROOT>>
    ELSE <<>>

ConanArgSets == {<<>>, <<"-o">>}

\* The dictionaries process_overrides makes of the -D options.
Overrides ==
    {<<>>,
     << <<K_VTD_ROOT, <<"o">> >> >>,
     << <<K_CLOE_ENGINE, <<"/", "x">> >> >>}

\* os.environ of the process a command runs in.
EngineParentEnvs ==
    {<<>>,
     << <<K_VTD_ROOT, <<"v">> >>, <<K_SECRET, <<"s">> >> >>,
     << <<K_CLOE_SHELL, <<"/", "r">> >>, <<K_SECRET, <<"s">> >> >>}

BaseOp == [name |-> "clean", use_cache |-> FALSE, abort_recursive_shell |-> TRUE,
           preserve_env |-> FALSE, override_env |-> <<>>, conan_args |-> <<>>,
           args |-> <<>>, patch_rpath |-> TRUE, nth |-> 1]

\* The invocations: exec, shell and activate as their CLI commands call them,
\* prepare and clean with their fixed arguments.  The arguments of exec that
\* are first read after the setup hooks (override_env, args) are drawn where
\* they are read.
Invocations ==
    {[BaseOp EXCEPT !.name = "exec", !.use_cache = c, !.preserve_env = p,
                    !.conan_args = a] :
        c \in BOOLEAN, p \in BOOLEAN, a \in ConanArgSets}
    \cup
    {[BaseOp EXCEPT !.name = "shell", !.use_cache = c,
                    !.abort_recursive_shell = b, !.conan_args = a] :
        c \in BOOLEAN, b \in BOOLEAN, a \in ConanArgSets}
    \cup
    {[BaseOp EXCEPT !.name = "activate", !.use_cache = c, !.conan_args = a] :
        c \in BOOLEAN, a \in ConanArgSets}
    \cup
    {[BaseOp EXCEPT !.name = "prepare", !.conan_args = <<"--build=outdated">>],
     [BaseOp EXCEPT !.name = "deploy", !.conan_args = <<"--build=outdated">>],
     BaseOp}

\* What the install step can do: fail, or run its generators.
ConanOutcomes ==
    {[rc |-> 1, gen |-> "none", path |-> <<>>, src_rc |-> 0],
     [rc |-> 0, gen |-> "none", path |-> <<>>, src_rc |-> 0],
     [rc |-> 0, gen |-> "new", path |-> <<"/", "e", ":", "/", "f">>, src_rc |-> 0],
     [rc |-> 0, gen |-> "new", path |-> <<"/", "x">>, src_rc |-> 0],
     [rc |-> 0, gen |-> "new", path |-> <<"/", "e">>, src_rc |-> 1],
     [rc |-> 0, gen |-> "old", path |-> <<"/", "x", ":", "/", "f">>, src_rc |-> 0]}

Terminal == {"returned", "exited", "raised", "replaced"}

\* The operations one process calls, one after the other, at most.
MaxInvocations == 2

\* The operations called in a process that has called exec before.
Reinvocations ==
    {o \in Invocations :
        /\ o.name \in {"exec", "shell"}
        /\ o.conan_args = <<>>
        /\ ~o.preserve_env
        /\ o.abort_recursive_shell}

\* A path as pathlib holds it: absolute or not, and its parts below the root
\* or the current directory.
PathOf(abs, parts) == [abs |-> abs, parts |-> parts]

\* Path.parent: the root and "." are their own parent.
Parent(path) ==
    IF Len(path.parts) = 0 THEN path
    ELSE [path EXCEPT !.parts = SubSeq(path.parts, 1, Len(path.parts) - 1)]

\* dest / sub
Under(path, sub) == [path EXCEPT !.parts = path.parts \o sub]

\* The destination before deploy has looked at it, and uninstall.sh before
\* it is written.
NoDest == [kind |-> "unknown", path |-> PathOf(TRUE, <<>>), files |-> {}, created |-> FALSE,
           elf |-> <<>>]
NoUninstaller == [written |-> FALSE, files |-> <<>>, dirs |-> {}]

InitEngine ==
    /\ runtime_dir = [exists |-> FALSE, files |-> <<>>]
    /\ plugin_files = <<>>
    /\ op = BaseOp
    /\ pc = "idle"
    /\ env = <<>>
    /\ subclasses = <<>>
    /\ plugin_setups = <<>>
    /\ result = 0
    /\ exit_status = -1
    /\ eng_raised = "none"
    /\ log = <<>>
    /\ dir0 = runtime_dir
    /\ dest = NoDest
    /\ uninstaller = NoUninstaller

depVars == <<dest, uninstaller>>

studyVars == <<arg, env_pc, data, raised, exported, reloaded, dedup_key, dedup_hist,
               moreVars>>

\* The operation ends with an exception.
Raise(what) ==
    /\ pc' = "raised"
    /\ eng_raised' = what

\* The operation ends in sys.exit(code).
SysExit(code) ==
    /\ pc' = "exited"
    /\ exit_status' = code % 256

\* A command is run in a new process with environment penv:
\* Engine(conf, conanfile) and the call of one operation.
Start(o, penv) ==
    /\ pc = "idle"
    /\ op' = o
    /\ os_environ' = penv
    /\ pc' = IF o.name = "clean" THEN "clean" ELSE "prepare_runtime_env"
    /\ UNCHANGED <<runtime_dir, plugin_files, shell_env, subclasses, env,
                   plugin_setups, result, exit_status, eng_raised, log, dir0,
                   depVars, studyVars>>

\* exec has returned to a caller that goes on to make a new Engine and call
\* an operation of it in the same process: the runtime directory, os.environ,
\* the class attribute Environment._shell_env and the subclasses of
\* PluginSetup are those the process has by now.
StartAgain(o) ==
    /\ pc = "returned"
    /\ op.name = "exec"
    /\ op.nth < MaxInvocations
    /\ op' = [o EXCEPT !.nth = op.nth + 1]
    /\ pc' = "prepare_runtime_env"
    /\ plugin_files' = <<>>
    /\ env' = <<>>
    /\ plugin_setups' = <<>>
    /\ result' = 0
    /\ log' = <<>>
    /\ dir0' = runtime_dir
    /\ UNCHANGED <<runtime_dir, subclasses, exit_status, eng_raised, depVars,
                   envVars>>

\* The process of the command ends: nothing of it is left but the runtime
\* directory.
ProcessEnd ==
    /\ pc \in Terminal
    /\ ~(pc = "returned" /\ op.name = "exec")
    /\ pc # "raised"
    /\ pc' = "idle"
    /\ op' = BaseOp
    /\ os_environ' = <<>>
    /\ plugin_files' = <<>>
    /\ shell_env' = ClassShellEnv
    /\ subclasses' = <<>>
    /\ env' = <<>>
    /\ plugin_setups' = <<>>
    /\ result' = 0
    /\ exit_status' = -1
    /\ eng_raised' = "none"
    /\ log' = <<>>
    /\ dir0' = runtime_dir
    /\ dest' = NoDest
    /\ uninstaller' = NoUninstaller
    /\ UNCHANGED <<runtime_dir, studyVars>>

\* Engine._prepare_runtime_env, the test of the cache
PrepareRuntimeEnv ==
    /\ pc = "prepare_runtime_env"
    /\ pc' = IF SnapshotExists /\ op.use_cache THEN "source_all" ELSE "clean"
    /\ UNCHANGED <<runtime_dir, plugin_files, op, env, subclasses, plugin_setups,
                   result, exit_status, eng_raised, log, dir0, depVars, envVars>>

\* A variant of Clean: removing a directory that does not exist is an error.
CleanStrict ==
    /\ pc = "clean"
    /\ IF runtime_dir.exists
       THEN /\ runtime_dir' = [exists |-> FALSE, files |-> <<>>]
            /\ log' = Append(log, Event("rmtree", "", NoEnv))
            /\ pc' = IF op.name = "clean" THEN "returned" ELSE "mkdir"
            /\ UNCHANGED eng_raised
       ELSE /\ Raise("FileNotFoundError")
            /\ UNCHANGED <<runtime_dir, log>>
    /\ UNCHANGED <<plugin_files, op, env, subclasses, plugin_setups, result,
                   exit_status, dir0, depVars, envVars>>

\* Engine.clean
Clean ==
    /\ pc = "clean"
    /\ IF runtime_dir.exists
       THEN /\ runtime_dir' = [exists |-> FALSE, files |-> <<>>]
            /\ log' = Append(log, Event("rmtree", "", NoEnv))
       ELSE UNCHANGED <<runtime_dir, log>>
    /\ pc' = IF op.name = "clean" THEN "returned" ELSE "mkdir"
    /\ UNCHANGED <<plugin_files, op, env, subclasses, plugin_setups, result,
                   exit_status, eng_raised, dir0, depVars, envVars>>

\* self.runtime_dir.mkdir(parents=True)
Mkdir ==
    /\ pc = "mkdir"
    /\ IF runtime_dir.exists
       THEN /\ Raise("FileExistsError")
            /\ UNCHANGED <<runtime_dir, log>>
       ELSE /\ runtime_dir' = [exists |-> TRUE, files |-> <<>>]
            /\ log' = Append(log, Event("mkdir", "", NoEnv))
            /\ pc' = "conan"
            /\ UNCHANGED eng_raised
    /\ UNCHANGED <<plugin_files, op, env, subclasses, plugin_setups, result,
                   exit_status, dir0, depVars, envVars>>

\* Engine._prepare_virtualenv: conan install, which must succeed
ConanInstall(out) ==
    /\ pc = "conan"
    /\ log' = Append(log, [Event("install", "", NoEnv) EXCEPT !.code = out.rc])
    /\ LET r == RunCmd([returncode |-> out.rc, stdout |-> <<>>], TRUE) IN
       IF r.raised # "none"
       THEN /\ Raise(r.raised)
            /\ UNCHANGED runtime_dir
       ELSE /\ runtime_dir' = [runtime_dir EXCEPT
                                  !.files = ConanFiles(out, WithJson) @@ @]
            /\ pc' = "write_cloe_env"
            /\ UNCHANGED eng_raised
    /\ UNCHANGED <<plugin_files, op, env, subclasses, plugin_setups, result,
                   exit_status, dir0, depVars, envVars>>

\* Engine._write_cloe_env
WriteCloeEnvStep ==
    /\ pc = "write_cloe_env"
    /\ LET r == WriteCloeEnv(runtime_dir.files, shell_env, os_environ,
                             op.abort_recursive_shell)
       IN  /\ shell_env' = r.shell_env
           /\ CASE r.kind = "raise" ->
                     /\ Raise(r.what)
                     /\ UNCHANGED <<runtime_dir, exit_status, log>>
                [] r.kind = "exit" ->
                     /\ SysExit(r.code)
                     /\ log' = Append(log, Event("exit", r.what, NoEnv))
                     /\ UNCHANGED <<runtime_dir, eng_raised>>
                [] OTHER ->
                     /\ runtime_dir' = [runtime_dir EXCEPT !.files =
                           ("environment_cloe.sh.env" :> EnvFile(r.cloe_env)) @@ @]
                     /\ log' = Append(log, Event("write", "environment_cloe.sh.env", NoEnv))
                     /\ pc' = "write_scripts"
                     /\ UNCHANGED <<exit_status, eng_raised>>
    /\ UNCHANGED <<plugin_files, op, env, subclasses, plugin_setups, result,
                   dir0, depVars, os_environ, studyVars>>

\* The files the rest of _prepare_runtime_dir writes, in order.
ScriptNames == <<"activate_all.sh", "prompt.sh", ".bashrc", ".zshrc">>

\* Engine._write_activate_all, _write_prompt_sh, _write_bashrc, _write_zshrc
WriteScripts ==
    /\ pc = "write_scripts"
    /\ runtime_dir' = [runtime_dir EXCEPT !.files =
          [n \in {ScriptNames[i] : i \in 1..Len(ScriptNames)} |-> Plain] @@ @]
    /\ log' = log \o [i \in 1..Len(ScriptNames) |-> Event("write", ScriptNames[i], NoEnv)]
    /\ pc' = "source_all"
    /\ UNCHANGED <<plugin_files, op, env, subclasses, plugin_setups, result,
                   exit_status, eng_raised, dir0, depVars, envVars>>

\* list(os.environ.keys()) as an allow-list: each name a pattern of its own
KeysOf(base) == [i \in 1..Len(base) |-> [lit |-> base[i][1], wild |-> FALSE]]

\* Engine._prepare_runtime_env, the Environment it returns: activate_all.sh
\* sourced in a shell
SourceAll ==
    /\ pc = "source_all"
    /\ LET preserve == IF op.preserve_env
                       THEN [none |-> FALSE, list |-> KeysOf(os_environ)]
                       ELSE NoPreserve
           script == IF "activate_all.sh" \in DOMAIN runtime_dir.files
                     THEN ActivateAll(runtime_dir.files)
                     ELSE [assigns |-> <<>>, rc |-> 1, text |-> <<>>]
           e == EnvironmentNew(ListArg(<<script>>), preserve, TRUE, shell_env,
                               os_environ)
       IN  /\ shell_env' = e.shell_env
           /\ log' = Append(log, Event("source", "activate_all.sh", NoEnv))
           /\ IF e.raised # "none"
              THEN /\ Raise(e.raised)
                   /\ UNCHANGED env
              ELSE /\ env' = e.data
                   /\ pc' = IF op.name = "prepare" THEN "returned"
                            ELSE IF op.name = "deploy" THEN "deploy_dest"
                            ELSE "write_runtime_env"
                   /\ UNCHANGED eng_raised
    /\ UNCHANGED <<runtime_dir, plugin_files, op, subclasses, plugin_setups,
                   result, exit_status, dir0, depVars, os_environ, studyVars>>

\* A variant of WriteRuntimeEnv: activate goes on as shell does.
WriteRuntimeEnvThenShell ==
    /\ pc = "write_runtime_env"
    /\ runtime_dir' = [runtime_dir EXCEPT !.files =
          ("environment_all.sh.env" :> EnvFile(env)) @@ @]
    /\ log' = Append(log, Event("write", "environment_all.sh.env", env))
    /\ pc' = "plugin_setups"
    /\ UNCHANGED <<plugin_files, op, env, subclasses, plugin_setups, result,
                   exit_status, eng_raised, dir0, depVars, envVars>>

\* Engine._write_runtime_env
WriteRuntimeEnv ==
    /\ pc = "write_runtime_env"
    /\ runtime_dir' = [runtime_dir EXCEPT !.files =
          ("environment_all.sh.env" :> EnvFile(env)) @@ @]
    /\ log' = Append(log, Event("write", "environment_all.sh.env", env))
    /\ pc' = IF op.name = "activate" THEN "print" ELSE "plugin_setups"
    /\ UNCHANGED <<plugin_files, op, env, subclasses, plugin_setups, result,
                   exit_status, eng_raised, dir0, depVars, envVars>>

\* Engine.activate, the lines it prints
PrintActivate ==
    /\ pc = "print"
    /\ log' = Append(log, Event("print", "source activate_all.sh prompt.sh", NoEnv))
    /\ pc' = "returned"
    /\ UNCHANGED <<runtime_dir, plugin_files, op, env, subclasses, plugin_setups,
                   result, exit_status, eng_raised, dir0, depVars, envVars>>

\* Environment.preserve
Preserve(d, key, override, base) ==
    IF (~Has(d, key) \/ override) /\ Has(base, key)
    THEN Put(d, key, Get(base, key))
    ELSE d

RECURSIVE PreserveAll(_, _, _)
PreserveAll(d, keys, base) ==
    IF Len(keys) = 0 THEN d
    ELSE PreserveAll(Preserve(d, keys[1], FALSE, base), Tail(keys), base)

RECURSIVE LoadAll(_, _)
\* Engine._extract_plugin_setups: every setup file of every plugin path is
\* loaded, each load defining one more subclass of PluginSetup.
LoadAll(paths, files) ==
    IF Len(paths) = 0 THEN <<>>
    ELSE files \o LoadAll(Tail(paths), files)

RECURSIVE EnvironmentHooks(_, _, _)
\* The loop of _prepare_plugin_setups: each setup's environment() hook on the
\* shared Environment; the result is the log of the calls and the final _data.
EnvironmentHooks(types, d, base) ==
    IF Len(types) = 0 THEN [events |-> <<>>, data |-> d]
    ELSE LET d1 == PreserveAll(d, PreservedBy(types[1]), base)
             r == EnvironmentHooks(Tail(types), d1, base)
         IN  [events |-> <<Event("environment", types[1], d1)>> \o r.events,
              data |-> r.data]

\* When the garbage collector runs during _extract_plugin_setups.  Nothing
\* refers to a class a setup file defined once its module is dropped, nor to
\* the classes of an earlier operation, but for PluginSetup's weak list of
\* subclasses: a class is in that list until the collector runs.
GcMoments == {"never", "before_load", "during_load", "after_load"}

\* PluginSetup.__subclasses__() at the end of _extract_plugin_setups, with
\* old the subclasses alive before and loaded those the files define.
LiveSubclasses(old, loaded, gc) ==
    CASE gc = "never" -> old \o loaded
      [] gc = "before_load" -> loaded
      [] gc = "during_load" ->
            IF Len(loaded) = 0 THEN <<>> ELSE <<loaded[Len(loaded)]>>
      [] OTHER -> <<>>

\* Engine._prepare_plugin_setups, with pfiles the setup files iterdir finds
PreparePluginSetups(pfiles, gc) ==
    /\ pc = "plugin_setups"
    /\ plugin_files' = pfiles
    /\ LET types == LiveSubclasses(subclasses,
                                   LoadAll(ExtractPluginPaths(env), pfiles), gc)
           r == EnvironmentHooks(types, env, os_environ)
       IN  /\ subclasses' = types
           /\ plugin_setups' = types
           /\ env' = r.data
           /\ log' = log \o r.events
    /\ pc' = IF op.name = "exec" THEN "setup" ELSE "execvpe"
    /\ UNCHANGED <<runtime_dir, op, result, exit_status, eng_raised, dir0, depVars, envVars>>

\* "for plugin in plugin_setups: plugin.setup()": each hook sees the
\* Environment as it is at that moment.
SetupEvents(setups, d) == [i \in 1..Len(setups) |-> Event("setup", setups[i], d)]

\* Engine.exec, the setup hooks
SetupHooks ==
    /\ pc = "setup"
    /\ log' = log \o SetupEvents(plugin_setups, env)
    /\ pc' = "override"
    /\ UNCHANGED <<runtime_dir, plugin_files, op, env, subclasses, plugin_setups,
                   result, exit_status, eng_raised, dir0, depVars, envVars>>

\* Engine.exec, "for k in override_env.keys(): env[k] = override_env[k]"
ApplyOverrides(override_env) ==
    /\ pc = "override"
    /\ op' = [op EXCEPT !.override_env = override_env]
    /\ env' = ApplyAssigns(env, override_env)
    /\ log' = Append(log, Event("override", "", env'))
    /\ pc' = "spawn"
    /\ UNCHANGED <<runtime_dir, plugin_files, subclasses, plugin_setups,
                   result, exit_status, eng_raised, dir0, depVars, envVars>>

\* The elements of a list.
Names(q) == {q[i] : i \in DOMAIN q}

RECURSIVE Replace(_, _, _)
\* str.replace(old, new) for one-character old and new
Replace(q, old, new) ==
    IF Len(q) = 0 THEN <<>>
    ELSE <<IF q[1] = old THEN new ELSE q[1]>> \o Replace(Tail(q), old, new)

RECURSIVE Str(_)
\* The characters of q as one string, the form file names have here.
Str(q) == IF Len(q) = 0 THEN "" ELSE q[1] \o Str(Tail(q))

StartsWith(q, prefix) ==
    /\ Len(q) >= Len(prefix)
    /\ SubSeq(q, 1, Len(prefix)) = prefix

Digits == {"0", "1", "2", "3", "4", "5", "6", "7", "8", "9"}

\* re.match("^(/proc/self|/dev)/fd/[0-9]+$", q): $ also matches before a
\* final newline.
IsAnonymousFile(q) ==
    \E prefix \in {<<"/", "p", "r", "o", "c", "/", "s", "e", "l", "f", "/", "f", "d", "/">>,
                   <<"/", "d", "e", "v", "/", "f", "d", "/">>} :
        /\ StartsWith(q, prefix)
        /\ LET rest == SubSeq(q, Len(prefix) + 1, Len(q))
               body == IF Len(rest) > 0 /\ rest[Len(rest)] = "\n"
                       THEN SubSeq(rest, 1, Len(rest) - 1) ELSE rest
           IN  /\ Len(body) > 0
               /\ \A i \in 1..Len(body) : body[i] \in Digits

\* str(self.runtime_dir)
RuntimeDirPath == <<"/", "r">>

\* What an open descriptor named by an argument holds.
FdContent == <<"h", "i">>

\* Engine._process_arg: an argument that is no anonymous file comes back as
\* the str it is; for an anonymous file the content is copied and the Path of
\* the copy comes back.
ProcessArg(src_path) ==
    IF ~IsAnonymousFile(src_path)
    THEN [is_path |-> FALSE, s |-> src_path, copy |-> <<>>]
    ELSE LET dst_file == Replace(src_path, "/", "_")
         IN  [is_path |-> TRUE,
              s |-> RuntimeDirPath \o <<"/">> \o dst_file,
              copy |-> <<Str(dst_file)>>]

\* The name _process_arg gives the copy of /dev/fd/3.
RelayName == Str(Replace(A_dev_fd_3, "/", "_"))

\* Engine._engine_cmd with relay_anonymous_files on and no pre- or
\* post-arguments configured
EngineCmd(engine_path, args) ==
    <<[is_path |-> FALSE, s |-> engine_path, copy |-> <<>>]>>
    \o [i \in 1..Len(args) |-> ProcessArg(args[i])]

RECURSIVE Copies(_)
\* The names of the copies made for a command line, in order.
Copies(cmd) == IF Len(cmd) = 0 THEN <<>> ELSE cmd[1].copy \o Copies(Tail(cmd))

\* ' '.join(cmd) raises TypeError on an item that is not a str.
JoinRaises(cmd) == \E i \in 1..Len(cmd) : cmd[i].is_path

\* Whether a path names a cloe-engine executable of the file system.
IsExecutable(path) == \E d \in EngineDirs : path = d \o EngineName

\* Engine.exec from "self.engine_path = env[...]" to subprocess.run: the
\* target ends with returncode code, unless it cannot be started.
Spawn(code, args) ==
    /\ pc = "spawn"
    /\ op' = [op EXCEPT !.args = args]
    /\ IF ~Has(env, K_CLOE_ENGINE)
       THEN /\ Raise("KeyError")
            /\ UNCHANGED <<runtime_dir, result, log>>
       ELSE LET cmd == EngineCmd(Get(env, K_CLOE_ENGINE), args)
                names == Copies(cmd)
                relay == [i \in 1..Len(names) |-> Event("write", names[i], NoEnv)]
            IN  /\ runtime_dir' = [runtime_dir EXCEPT !.files =
                      [n \in Names(names) |->
                          [assigns |-> <<>>, rc |-> 0, text |-> FdContent]] @@ @]
                /\ IF JoinRaises(cmd)
                   THEN /\ Raise("TypeError")
                        /\ log' = log \o relay
                        /\ UNCHANGED result
                   ELSE IF IsExecutable(Get(env, K_CLOE_ENGINE))
                   THEN /\ result' = code
                        /\ log' = log \o relay \o
                                  <<[Event("spawn", "", env) EXCEPT !.cmd = cmd],
                                    [Event("ended", "", NoEnv) EXCEPT !.code = code]>>
                        /\ pc' = "teardown"
                        /\ UNCHANGED eng_raised
                   ELSE /\ Raise("FileNotFoundError")
                        /\ log' = log \o relay
                        /\ UNCHANGED result
    /\ UNCHANGED <<plugin_files, env, subclasses, plugin_setups, exit_status,
                   dir0, depVars, envVars>>

\* A variant of TeardownEvents: the last setup is left out.
TeardownEventsButLast(setups) ==
    [i \in 1..(Len(setups) - 1) |-> Event("teardown", setups[i], NoEnv)]

\* "for setup in plugin_setups: setup.teardown()"
TeardownEvents(setups) == [i \in 1..Len(setups) |-> Event("teardown", setups[i], NoEnv)]

\* Engine.exec, the teardown hooks and the return of the result
Teardown ==
    /\ pc = "teardown"
    /\ log' = log \o TeardownEvents(plugin_setups)
    /\ pc' = "returned"
    /\ UNCHANGED <<runtime_dir, plugin_files, op, env, subclasses, plugin_setups,
                   result, exit_status, eng_raised, dir0, depVars, envVars>>

\* A variant of ExitStatusOf: only success or failure is passed on.
ExitStatusAsFlag(code) == IF code = 0 THEN 0 ELSE 1

\* The exit status the operating system reports for sys.exit(code): the low
\* eight bits of the code.
ExitStatusOf(code) == code % 256

\* cli_exec: sys.exit(result.returncode)
CliExit ==
    /\ pc = "returned"
    /\ op.name = "exec"
    /\ exit_status' = ExitStatusOf(result)
    /\ pc' = "exited"
    /\ log' = Append(log, Event("exit", "", NoEnv))
    /\ UNCHANGED <<runtime_dir, plugin_files, op, env, subclasses, plugin_setups,
                   result, eng_raised, dir0, depVars, envVars>>

\* A variant of ExecShell: the teardown hooks run after the shell and shell
\* returns.
ExecShellThenTeardown ==
    /\ pc = "execvpe"
    /\ log' = Append(log, Event("execvpe", "/bin/bash", env)) \o
                 [i \in 1..Len(plugin_setups) |-> Event("teardown", plugin_setups[i], NoEnv)]
    /\ pc' = "returned"
    /\ UNCHANGED <<runtime_dir, plugin_files, op, env, subclasses, plugin_setups,
                   result, exit_status, eng_raised, dir0, depVars, envVars>>

\* Engine.shell from os.getenv("SHELL", "/bin/bash") to os.execvpe
ExecShell ==
    /\ pc = "execvpe"
    /\ log' = Append(log, Event("execvpe", "/bin/bash", env))
    /\ pc' = "replaced"
    /\ UNCHANGED <<runtime_dir, plugin_files, op, env, subclasses, plugin_setups,
                   result, exit_status, eng_raised, dir0, depVars, envVars>>

\* The destination as deploy can find it: the root directory, nothing at d,
\* a file /d.
DestCases ==
    {[kind |-> "dir", path |-> PathOf(TRUE, <<>>)],
     [kind |-> "absent", path |-> PathOf(FALSE, <<"d">>)],
     [kind |-> "file", path |-> PathOf(TRUE, <<"d">>)]}

\* Engine.deploy, "Ensure destination exists"
DeployDest(found) ==
    /\ pc = "deploy_dest"
    /\ IF found.kind = "file"
       THEN /\ dest' = [NoDest EXCEPT !.kind = "file", !.path = found.path]
            /\ SysExit(1)
            /\ log' = Append(log, Event("exit", "destination is not a directory", NoEnv))
       ELSE /\ dest' = [NoDest EXCEPT !.kind = "dir", !.path = found.path,
                                      !.created = (found.kind = "absent")]
            /\ log' = IF found.kind = "absent"
                      THEN Append(log, Event("mkdir_dest", "", NoEnv)) ELSE log
            /\ pc' = "deploy_copy"
            /\ UNCHANGED exit_status
    /\ UNCHANGED <<runtime_dir, plugin_files, op, env, subclasses, plugin_setups,
                   result, eng_raised, dir0, uninstaller, envVars>>

\* The files below bin and lib of the packages of conanbuildinfo.json.
PackageFiles ==
    <<<<"bin", "x">>, <<"bin", "s", "x">>, <<"bin", "s", "t", "x">>,
      <<"lib", "cloe", "z">>>>

\* The trees deploy copies: any of the package files, in the order copied.
SubFiles(keep) == SelectSeq(PackageFiles, LAMBDA f : f \in keep)
Trees == {SubFiles(keep) : keep \in SUBSET Names(PackageFiles)}

\* Engine.deploy, "Copy necessary files to destination": copy_file records
\* every file it installs in install_manifest.
DeployCopy(tree) ==
    /\ pc = "deploy_copy"
    /\ IF "conanbuildinfo.json" \notin DOMAIN runtime_dir.files
       THEN /\ Raise("FileNotFoundError")
            /\ UNCHANGED <<dest, uninstaller, log>>
       ELSE LET manifest == [i \in 1..Len(tree) |-> Under(dest.path, tree[i])] IN
            /\ dest' = [dest EXCEPT !.files = Names(manifest)]
            /\ uninstaller' = [uninstaller EXCEPT !.files = manifest]
            /\ log' = log \o [i \in 1..Len(tree) |-> Event("copy", Str(tree[i]), NoEnv)]
            /\ pc' = "deploy_rpath"
            /\ UNCHANGED eng_raised
    /\ UNCHANGED <<runtime_dir, plugin_files, op, env, subclasses, plugin_setups,
                   result, exit_status, dir0, envVars>>

RECURSIVE JoinStr(_, _)
\* sep.join(list) of strings
JoinStr(list, sep) ==
    IF Len(list) = 0 THEN ""
    ELSE IF Len(list) = 1 THEN list[1]
    ELSE list[1] \o sep \o JoinStr(Tail(list), sep)

\* What patchelf finds in a file: whether it is an ELF executable, the
\* search path it has ("" for none), whether setting a new one fails.
Elf(original) == [elf |-> TRUE, original |-> original, fails |-> FALSE]

\* The binary files of the packages as patchelf finds them: all ELF with a
\* search path each, the first not an ELF executable, the second one not
\* writable, all without a search path.
ElfCases ==
    LET all == (<<"bin", "x">> :> Elf("p")) @@ (<<"bin", "s", "x">> :> Elf("q")) @@
               (<<"bin", "s", "t", "x">> :> Elf("r")) @@
               (<<"lib", "cloe", "z">> :> Elf("s"))
    IN  {all,
         [all EXCEPT ![<<"bin", "x">>].elf = FALSE],
         [all EXCEPT ![<<"bin", "s", "x">>].fails = TRUE],
         [f \in DOMAIN all |-> Elf("")]}

\* utility.patch_rpath on a file, with the list object it is handed: the
\* list as the call leaves it, and what was done to the file.
PatchRpath(kind, rpath) ==
    IF ~kind.elf
    THEN [rpath |-> rpath, status |-> "not ELF", written |-> ""]
    ELSE LET r1 == IF kind.original # "" THEN Append(rpath, kind.original) ELSE rpath
         IN  IF kind.fails
             THEN [rpath |-> r1, status |-> "CalledProcessError", written |-> ""]
             ELSE [rpath |-> r1, status |-> "set", written |-> JoinStr(r1, ":")]

RECURSIVE PatchBinaryFilesRpathNoTry(_, _, _)
\* A variant of PatchBinaryFilesRpath: an exception of patch_rpath ends the
\* loop and is passed on.
PatchBinaryFilesRpathNoTry(files, kinds, rpath) ==
    IF Len(files) = 0 THEN [events |-> <<>>, raised |-> "none"]
    ELSE LET r == PatchRpath(kinds[files[1]], rpath)
             e == [Event("patch_rpath", JoinStr(files[1], "/"), NoEnv)
                      EXCEPT !.cmd = <<r.status, r.written>>]
             rest == PatchBinaryFilesRpathNoTry(Tail(files), kinds, r.rpath)
         IN  IF r.status = "CalledProcessError"
             THEN [events |-> <<e>>, raised |-> r.status]
             ELSE [events |-> <<e>> \o rest.events, raised |-> rest.raised]

RECURSIVE PatchBinaryFilesRpath(_, _, _)
\* utility.patch_binary_files_rpath, the loop over the files found: the one
\* list rpath is handed to every call of patch_rpath, and whatever a call
\* raises is caught and logged.
PatchBinaryFilesRpath(files, kinds, rpath) ==
    IF Len(files) = 0 THEN [events |-> <<>>, raised |-> "none"]
    ELSE LET r == PatchRpath(kinds[files[1]], rpath)
             e == [Event("patch_rpath", JoinStr(files[1], "/"), NoEnv)
                      EXCEPT !.cmd = <<r.status, r.written>>]
             rest == PatchBinaryFilesRpath(Tail(files), kinds, r.rpath)
         IN  [events |-> <<e>> \o rest.events, raised |-> rest.raised]

\* The files deploy copied below dest/sub, in the order find lists them.
CopiedUnder(sub) ==
    SelectSeq(PackageFiles,
              LAMBDA f : /\ Under(dest.path, f) \in dest.files
                         /\ Len(f) > Len(sub)
                         /\ SubSeq(f, 1, Len(sub)) = sub)

\* find_binary_files(dest/sub) has a directory to run in: one deploy copied
\* into, or one of a destination that was there before.
DirExists(sub) == CopiedUnder(sub) # <<>> \/ ~dest.created

\* Engine.deploy, "if patch_rpath": patch_binary_files_rpath on bin and on
\* lib/cloe, each with a list of its own; find_binary_files is outside the
\* try of the loop.  No wrapper is asked for.
DeployPatchRpath(patch_rpath, kinds) ==
    /\ pc = "deploy_rpath"
    /\ op' = [op EXCEPT !.patch_rpath = patch_rpath]
    /\ IF ~patch_rpath
       THEN /\ pc' = "deploy_uninstaller"
            /\ UNCHANGED <<log, dest, eng_raised>>
       ELSE LET bin == PatchBinaryFilesRpath(CopiedUnder(<<"bin">>), kinds,
                                             <<"$ORIGIN/../lib">>)
                lib == PatchBinaryFilesRpath(CopiedUnder(<<"lib", "cloe">>), kinds,
                                             <<"$ORIGIN/..">>)
            IN  /\ dest' = [dest EXCEPT !.elf = kinds]
                /\ IF ~DirExists(<<"bin">>)
                   THEN /\ Raise("FileNotFoundError")
                        /\ UNCHANGED log
                   ELSE IF bin.raised # "none"
                   THEN /\ Raise(bin.raised)
                        /\ log' = log \o bin.events
                   ELSE IF ~DirExists(<<"lib", "cloe">>)
                   THEN /\ Raise("FileNotFoundError")
                        /\ log' = log \o bin.events
                   ELSE IF lib.raised # "none"
                   THEN /\ Raise(lib.raised)
                        /\ log' = log \o bin.events \o lib.events
                   ELSE /\ pc' = "deploy_uninstaller"
                        /\ log' = log \o bin.events \o lib.events
                        /\ UNCHANGED eng_raised
    /\ UNCHANGED <<runtime_dir, plugin_files, env, subclasses, plugin_setups,
                   result, exit_status, dir0, uninstaller, envVars>>

RECURSIVE RemoveAncestorsOnlyParent(_, _)
\* A variant of RemoveAncestors: only the nearest ancestor is removed.
RemoveAncestorsOnlyParent(parent, manifest) ==
    IF parent = Parent(parent) THEN manifest ELSE manifest \ {parent}

RECURSIVE RemoveAncestors(_, _)
\* simplify_manifest, the while loop: from parent upwards, every ancestor
\* below the root (or ".") is removed from the manifest.
RemoveAncestors(parent, manifest) ==
    IF parent = Parent(parent) THEN manifest
    ELSE RemoveAncestors(Parent(parent), manifest \ {parent})

RECURSIVE SimplifyManifest(_, _)
\* simplify_manifest, the for loop over list(manifest), taken in the given
\* order
SimplifyManifest(order, manifest) ==
    IF Len(order) = 0 THEN manifest
    ELSE SimplifyManifest(Tail(order), RemoveAncestors(Parent(order[1]), manifest))

\* The orders in which the members of a set can be listed.
Orders(S) ==
    {q \in [1..Cardinality(S) -> S] : \A i, j \in DOMAIN q : q[i] = q[j] => i = j}

\* install_dirs: the parent of every installed file
InstallDirs(manifest) == {Parent(manifest[i]) : i \in DOMAIN manifest}

\* Engine.deploy, "Create uninstaller from manifest"
DeployUninstaller(order) ==
    /\ pc = "deploy_uninstaller"
    /\ order \in Orders(InstallDirs(uninstaller.files))
    /\ runtime_dir' = [runtime_dir EXCEPT !.files = ("uninstall.sh" :> Plain) @@ @]
    /\ uninstaller' = [uninstaller EXCEPT
                          !.written = TRUE,
                          !.dirs = SimplifyManifest(order, InstallDirs(uninstaller.files))]
    /\ log' = Append(log, Event("write", "uninstall.sh", NoEnv))
    /\ pc' = "returned"
    /\ UNCHANGED <<plugin_files, op, env, subclasses, plugin_setups, result,
                   exit_status, eng_raised, dir0, dest, envVars>>

\* cli_deploy: "except ChildProcessError: sys.exit(1)"
CliDeployExit ==
    /\ pc = "raised"
    /\ op.name = "deploy"
    /\ eng_raised = "ChildProcessError"
    /\ SysExit(1)
    /\ log' = Append(log, Event("exit", "ChildProcessError", NoEnv))
    /\ UNCHANGED <<runtime_dir, plugin_files, op, env, subclasses, plugin_setups,
                   result, eng_raised, dir0, depVars, envVars>>

\* The commands that raise ConfigurationError and what they raise it for:
\* Configuration() in the callback of the command group, Configuration.edit,
\* Configuration.set_default and Configuration.add.
ConfigurationCases ==
    {<<"cli", "missing required version key in configuration">>,
     <<"config", "environment variable EDITOR is unset">>,
     <<"profile_default", "profile p does not exist">>,
     <<"profile_add", "cannot overwrite profile p unless forced">>}

\* A command is run in a new process and its Configuration raises.
ConfigurationRaise(command, what) ==
    /\ pc = "idle"
    /\ op' = [BaseOp EXCEPT !.name = command]
    /\ Raise("ConfigurationError")
    /\ log' = Append(log, Event("raise", what, NoEnv))
    /\ UNCHANGED <<runtime_dir, plugin_files, env, subclasses, plugin_setups,
                   result, exit_status, dir0, depVars, envVars>>

\* main and entry_point: the ConfigurationError is caught, "Error: ..." is
\* printed to stderr and the function returns, so the process ends as one
\* whose main function returned.
MainCatch ==
    /\ pc = "raised"
    /\ eng_raised = "ConfigurationError"
    /\ LET i == CHOOSE i \in DOMAIN log : log[i].ev = "raise" IN
       log' = Append(log, Event("stderr", "Error: " \o log[i].who, NoEnv))
    /\ SysExit(0)
    /\ UNCHANGED <<runtime_dir, plugin_files, op, env, subclasses, plugin_setups,
                   result, eng_raised, dir0, depVars, envVars>>

\* Any other exception leaves main and entry_point: the interpreter prints
\* the traceback and ends the process with status 1.
Uncaught ==
    /\ pc = "raised"
    /\ eng_raised # "ConfigurationError"
    /\ ~(op.name = "deploy" /\ eng_raised = "ChildProcessError")
    /\ SysExit(1)
    /\ log' = Append(log, Event("traceback", eng_raised, NoEnv))
    /\ UNCHANGED <<runtime_dir, plugin_files, op, env, subclasses, plugin_setups,
                   result, eng_raised, dir0, depVars, envVars>>

InitProcess ==
    /\ os_environ = <<>>
    /\ shell_env = ClassShellEnv
    /\ arg = [kind |-> "none", map |-> <<>>, files |-> <<>>, source_file |-> FALSE]
    /\ env_pc = "off"
    /\ data = <<>>
    /\ raised = "none"
    /\ exported = <<>>
    /\ reloaded = <<>>
    /\ dedup_key = <<>>
    /\ dedup_hist = <<>>
    /\ prepend = NoPrepend
    /\ InitEngine

Init ==
    /\ InitProcess
    /\ conc = NoConc
    /\ PollOff

Next ==
    \/ \E o \in Invocations, penv \in EngineParentEnvs : Start(o, penv)
    \/ PrepareRuntimeEnv
    \/ Clean
    \/ Mkdir
    \/ \E out \in ConanOutcomes : ConanInstall(out)
    \/ WriteCloeEnvStep
    \/ WriteScripts
    \/ SourceAll
    \/ WriteRuntimeEnv
    \/ PrintActivate
    \/ \E pfiles \in PluginFileSets, gc \in GcMoments : PreparePluginSetups(pfiles, gc)
    \/ SetupHooks
    \/ \E override_env \in Overrides : ApplyOverrides(override_env)
    \/ \E c \in SpawnCases : Spawn(c[1], c[2])
    \/ Teardown
    \/ CliExit
    \/ ExecShell
    \/ \E found \in DestCases : DeployDest(found)
    \/ \E tree \in Trees : DeployCopy(tree)
    \/ \E patch_rpath \in BOOLEAN, kinds \in ElfCases : DeployPatchRpath(patch_rpath, kinds)
    \/ \E order \in Orders(InstallDirs(uninstaller.files)) : DeployUninstaller(order)
    \/ CliDeployExit
    \/ \E c \in ConfigurationCases : ConfigurationRaise(c[1], c[2])
    \/ MainCatch
    \/ Uncaught
    \/ \E o \in Reinvocations : StartAgain(o)
    \/ ProcessEnd

Spec == Init /\ [][Next]_vars

----------------------------------------------------------------------------
(* Two invocations at once, both with use_cache False, on the runtime     *)
(* directory of one profile: the steps of _prepare_runtime_env of each,   *)
(* interleaved.  Nothing in the steps looks for or takes a lock.          *)

\* What is neither the runtime directory nor the two invocations.
concRest == <<os_environ, shell_env, arg, env_pc, data, raised, exported, reloaded,
              dedup_key, dedup_hist, prepend, plugin_files, op, pc, env, subclasses,
              plugin_setups, result, exit_status, eng_raised, log, dir0, dest,
              uninstaller, pollVars>>

InitConc ==
    /\ InitProcess
    /\ PollOff
    /\ conc = [p \in Procs |-> [NoInvocation EXCEPT !.pc = "clean"]]

\* The files of the runtime directory, none when it is not there.
DirFiles == IF runtime_dir.exists THEN runtime_dir.files ELSE <<>>

\* An invocation is between its own clean and its sourcing of activate_all.sh.
Middle(q) ==
    conc[q].pc \in {"mkdir", "conan", "write_cloe_env", "write_scripts", "source_all"}

\* Invocation p goes to next; when it removed or created the runtime
\* directory in this step, each other invocation in the middle of its steps
\* had the directory changed under it.
Moved(p, next, changed) ==
    [q \in Procs |->
        IF q = p THEN next
        ELSE IF changed /\ Middle(q) THEN [conc[q] EXCEPT !.disturbed = TRUE]
        ELSE conc[q]]

\* A variant of ConcClean: clean waits until no other invocation is in the
\* middle of its steps.
ConcCleanLocked(p) ==
    /\ conc[p].pc = "clean"
    /\ \A q \in Procs \ {p} : ~Middle(q)
    /\ runtime_dir' = [exists |-> FALSE, files |-> <<>>]
    /\ conc' = Moved(p, [conc[p] EXCEPT !.pc = "mkdir"], runtime_dir.exists)
    /\ UNCHANGED concRest

\* Engine.clean, called by _prepare_runtime_dir
ConcClean(p) ==
    /\ conc[p].pc = "clean"
    /\ runtime_dir' = [exists |-> FALSE, files |-> <<>>]
    /\ conc' = Moved(p, [conc[p] EXCEPT !.pc = "mkdir"], runtime_dir.exists)
    /\ UNCHANGED concRest

\* self.runtime_dir.mkdir(parents=True)
ConcMkdir(p) ==
    /\ conc[p].pc = "mkdir"
    /\ IF runtime_dir.exists
       THEN /\ conc' = Moved(p, [conc[p] EXCEPT !.pc = "raised",
                                               !.raised = "FileExistsError"], FALSE)
            /\ UNCHANGED runtime_dir
       ELSE /\ runtime_dir' = [exists |-> TRUE, files |-> <<>>]
            /\ conc' = Moved(p, [conc[p] EXCEPT !.pc = "conan"], TRUE)
    /\ UNCHANGED concRest

\* Engine._prepare_virtualenv: conan install --install-folder, which makes
\* the folder when it is not there
ConcConanInstall(p, out) ==
    /\ conc[p].pc = "conan"
    /\ LET r == RunCmd([returncode |-> out.rc, stdout |-> <<>>], TRUE)
           new == ConanFiles(out, FALSE)
       IN  IF r.raised # "none"
           THEN /\ conc' = Moved(p, [conc[p] EXCEPT !.pc = "raised",
                                                   !.raised = r.raised], FALSE)
                /\ UNCHANGED runtime_dir
           ELSE /\ runtime_dir' = [exists |-> TRUE, files |-> new @@ DirFiles]
                /\ conc' = Moved(p, [conc[p] EXCEPT !.pc = "write_cloe_env",
                                                   !.wrote = @ \cup DOMAIN new],
                                 ~runtime_dir.exists)
    /\ UNCHANGED concRest

\* Engine._write_cloe_env
ConcWriteCloeEnv(p) ==
    /\ conc[p].pc = "write_cloe_env"
    /\ LET r == WriteCloeEnv(DirFiles, ClassShellEnv, <<>>, TRUE)
       IN  CASE r.kind = "raise" ->
                  /\ conc' = Moved(p, [conc[p] EXCEPT !.pc = "raised",
                                                     !.raised = r.what], FALSE)
                  /\ UNCHANGED runtime_dir
             [] r.kind = "exit" ->
                  /\ conc' = Moved(p, [conc[p] EXCEPT !.pc = "exited"], FALSE)
                  /\ UNCHANGED runtime_dir
             [] OTHER ->
                  /\ runtime_dir' = [runtime_dir EXCEPT !.files =
                        ("environment_cloe.sh.env" :> EnvFile(r.cloe_env)) @@ @]
                  /\ conc' = Moved(p, [conc[p] EXCEPT
                                          !.pc = "write_scripts",
                                          !.wrote = @ \cup {"environment_cloe.sh.env"}],
                                   FALSE)
    /\ UNCHANGED concRest

\* Engine._write_activate_all, _write_prompt_sh, _write_bashrc, _write_zshrc:
\* open(..., "w") in a directory that is not there raises FileNotFoundError.
ConcWriteScripts(p) ==
    /\ conc[p].pc = "write_scripts"
    /\ IF ~runtime_dir.exists
       THEN /\ conc' = Moved(p, [conc[p] EXCEPT !.pc = "raised",
                                               !.raised = "FileNotFoundError"], FALSE)
            /\ UNCHANGED runtime_dir
       ELSE /\ runtime_dir' = [runtime_dir EXCEPT !.files =
                  [n \in Names(ScriptNames) |-> Plain] @@ @]
            /\ conc' = Moved(p, [conc[p] EXCEPT !.pc = "source_all",
                                               !.wrote = @ \cup Names(ScriptNames)],
                             FALSE)
    /\ UNCHANGED concRest

\* Engine._prepare_runtime_env, the Environment it returns: activate_all.sh
\* sourced in a shell, with the files that are there at that moment
ConcSourceAll(p) ==
    /\ conc[p].pc = "source_all"
    /\ LET script == IF "activate_all.sh" \in DOMAIN DirFiles
                     THEN ActivateAll(DirFiles)
                     ELSE [assigns |-> <<>>, rc |-> 1, text |-> <<>>]
           e == EnvironmentNew(ListArg(<<script>>), NoPreserve, TRUE, ClassShellEnv,
                               <<>>)
           seen == [conc[p] EXCEPT !.missing = conc[p].wrote \ DOMAIN DirFiles]
       IN  conc' = Moved(p, IF e.raised # "none"
                           THEN [seen EXCEPT !.pc = "raised", !.raised = e.raised]
                           ELSE [seen EXCEPT !.pc = "returned", !.env = e.data],
                        FALSE)
    /\ UNCHANGED <<runtime_dir, concRest>>

NextConc ==
    \E p \in Procs :
        \/ ConcClean(p)
        \/ ConcMkdir(p)
        \/ \E out \in ConanOutcomes : ConcConanInstall(p, out)
        \/ ConcWriteCloeEnv(p)
        \/ ConcWriteScripts(p)
        \/ ConcSourceAll(p)

SpecConc == InitConc /\ [][NextConc]_vars

----------------------------------------------------------------------------
(* procutils.transient_system: the poll loop on the child's two pipes     *)

\* What is not of transient_system.
pollRest == <<os_environ, shell_env, arg, env_pc, data, raised, exported, reloaded,
              dedup_key, dedup_hist, prepend, conc, engVars>>

Streams == {"stdout", "stderr"}

\* What a child does, step by step: it writes a piece of text to a stream,
\* with or without the end of the line, or closes a stream.
ChildSteps ==
    {[do |-> "write", to |-> "stdout", text |-> <<"a">>],
     [do |-> "write", to |-> "stdout", text |-> <<"b", "\n">>],
     [do |-> "write", to |-> "stderr", text |-> <<"x", "\n">>],
     [do |-> "close", to |-> "stdout", text |-> <<>>],
     [do |-> "close", to |-> "stderr", text |-> <<>>]}

\* The most steps of a child before it exits.
MaxSteps == 3

\* The exit codes of a child.
ExitCodes == {0, 3}

\* A child does not write to a stream it has closed, nor close it again.
WellFormed(prog) ==
    \A i, j \in DOMAIN prog :
        (i < j /\ prog[i].do = "close") => prog[j].to # prog[i].to

\* The children: up to MaxSteps steps, then exit, which closes what is open.
Programs ==
    {prog \o <<[do |-> "exit", to |-> "", text |-> <<>>, code |-> c]>> :
        prog \in {q \in UNION {[1..n -> ChildSteps] : n \in 0..MaxSteps} : WellFormed(q)},
        c \in ExitCodes}

InitPoll ==
    /\ InitProcess
    /\ conc = NoConc
    /\ process \in {[program |-> prog, ip |-> 1, returncode |-> -1] : prog \in Programs}
    /\ pipes = [s \in Streams |-> [data |-> <<>>, open |-> TRUE]]
    /\ registered = Streams
    /\ alive = 2
    /\ events = <<>>
    /\ todo = <<>>
    /\ ts_result = [merged_output |-> <<>>, stdout_lines |-> <<>>, stderr_lines |-> <<>>,
                    return_code |-> -1]
    /\ ts_pc = "poll"
    /\ hups = [s \in Streams |-> 0]

\* The child takes its next step.
ChildStep ==
    /\ ts_pc # "off"
    /\ process.ip <= Len(process.program)
    /\ LET c == process.program[process.ip] IN
       /\ process' = [process EXCEPT !.ip = @ + 1,
                                     !.returncode = IF c.do = "exit" THEN c.code ELSE @]
       /\ pipes' = CASE c.do = "write" -> [pipes EXCEPT ![c.to].data = @ \o c.text]
                     [] c.do = "close" -> [pipes EXCEPT ![c.to].open = FALSE]
                     [] OTHER -> [s \in Streams |-> [pipes[s] EXCEPT !.open = FALSE]]
    /\ UNCHANGED <<registered, alive, events, todo, ts_result, ts_pc, hups, pollRest>>

\* poll reports a registered stream that has data to read (POLLIN) or whose
\* writing end is closed (POLLHUP).
Flags(s) ==
    (IF Len(pipes[s].data) > 0 THEN {"POLLIN"} ELSE {})
    \cup (IF ~pipes[s].open THEN {"POLLHUP"} ELSE {})

Ready == {s \in registered : Flags(s) # {}}

\* The lists poll.poll() can return: the ready streams with their flags, in
\* either order.
PollResults ==
    {q \in UNION {[1..n -> Ready \X SUBSET {"POLLIN", "POLLHUP"}] : n \in 1..2} :
        /\ Len(q) = Cardinality(Ready)
        /\ {q[i][1] : i \in DOMAIN q} = Ready
        /\ \A i \in DOMAIN q : q[i][2] = Flags(q[i][1])}

\* events = poll.poll(), before the loop and at the end of the body of the
\* for loop: the call returns when a registered stream is ready.
Poll(got) ==
    /\ ts_pc \in {"poll", "inner_poll"}
    /\ got \in PollResults
    /\ events' = got
    /\ ts_pc' = IF ts_pc = "poll" THEN "while" ELSE "for"
    /\ UNCHANGED <<process, pipes, registered, alive, todo, ts_result, hups, pollRest>>

\* "while alive > 0 and len(events) > 0", and "for fd, event in events"
\* taking the list events names at that moment
WhileTest ==
    /\ ts_pc = "while"
    /\ IF alive > 0 /\ Len(events) > 0
       THEN /\ todo' = events
            /\ ts_pc' = "for"
       ELSE /\ ts_pc' = "wait"
            /\ UNCHANGED todo
    /\ UNCHANGED <<process, pipes, registered, alive, events, ts_result, hups, pollRest>>

RECURSIVE SplitLines(_)
\* _readlines_noblock on what is in the pipe: readline gives each line with
\* its newline, then what there is of a line that has no newline yet, then ''.
SplitLines(q) ==
    IF Len(q) = 0 THEN <<>>
    ELSE IF \E i \in DOMAIN q : q[i] = "\n"
    THEN LET i == CHOOSE i \in DOMAIN q :
                     q[i] = "\n" /\ \A j \in 1..(i - 1) : q[j] # "\n"
         IN  <<SubSeq(q, 1, i)>> \o SplitLines(SubSeq(q, i + 1, Len(q)))
    ELSE <<q>>

\* One pass of the body of the for loop, up to the call of poll at its end;
\* when the list is through, back to the test of the while loop.
ForBody ==
    /\ ts_pc = "for"
    /\ IF Len(todo) = 0
       THEN /\ ts_pc' = "while"
            /\ UNCHANGED <<pipes, registered, alive, todo, ts_result, hups>>
       ELSE LET fd == todo[1][1]
                event == todo[1][2]
                lines == IF "POLLIN" \in event THEN SplitLines(pipes[fd].data) ELSE <<>>
                alive1 == IF "POLLHUP" \in event THEN alive - 1 ELSE alive
            IN  /\ todo' = Tail(todo)
                /\ pipes' = IF "POLLIN" \in event
                            THEN [pipes EXCEPT ![fd].data = <<>>] ELSE pipes
                /\ ts_result' =
                      IF fd = "stdout"
                      THEN [ts_result EXCEPT !.stdout_lines = @ \o lines,
                                             !.merged_output = @ \o lines]
                      ELSE [ts_result EXCEPT !.stderr_lines = @ \o lines,
                                             !.merged_output = @ \o lines]
                /\ IF "POLLHUP" \in event /\ fd \notin registered
                   THEN /\ ts_pc' = "KeyError"
                        /\ UNCHANGED <<registered, alive, hups>>
                   ELSE /\ registered' = IF "POLLHUP" \in event
                                         THEN registered \ {fd} ELSE registered
                        /\ hups' = IF "POLLHUP" \in event
                                   THEN [hups EXCEPT ![fd] = @ + 1] ELSE hups
                        /\ alive' = alive1
                        /\ ts_pc' = IF alive1 > 0 THEN "inner_poll" ELSE "for"
    /\ UNCHANGED <<process, events, pollRest>>

\* result.return_code = process.wait()
Wait ==
    /\ ts_pc = "wait"
    /\ process.returncode >= 0
    /\ ts_result' = [ts_result EXCEPT !.return_code = process.returncode]
    /\ ts_pc' = "done"
    /\ UNCHANGED <<process, pipes, registered, alive, events, todo, hups, pollRest>>

NextPoll ==
    \/ ChildStep
    \/ \E got \in PollResults : Poll(got)
    \/ WhileTest
    \/ ForBody
    \/ Wait

SpecPoll == InitPoll /\ [][NextPoll]_vars

----------------------------------------------------------------------------
(* Properties of the Environment class                                     *)

\* The child shell of the construction under study returned non-zero.
SourceFailed ==
    /\ arg.kind = "list"
    /\ arg.source_file
    /\ \E i \in 1..Len(arg.files) : arg.files[i].rc # 0

\* C6: when the child shell that sources the files exits non-zero, the
\* construction does not raise: it completes, and the Environment holds only
\* the variables found in the child's output (here none, env never ran).
C6_SourceFailureDoesNotRaise ==
    (env_pc # "new" /\ SourceFailed) =>
        /\ raised = "none"
        /\ env_pc = "constructed"
        /\ data = InitFromStr(<<>>, ShellCommand(arg.files, shell_env).stdout)

\* A construction in shell-source mode whose child exited non-zero is over.
C6_Witness == env_pc # "new" /\ SourceFailed /\ Len(arg.files) = 2

IsLetter(c) ==
    c \in {"a", "b", "c", "d", "e", "f", "g", "h", "i", "j", "k", "l", "m", "n",
           "o", "p", "q", "r", "s", "t", "u", "v", "w", "x", "y", "z",
           "A", "B", "C", "D", "E", "F", "G", "H", "I", "J", "K", "L", "M", "N",
           "O", "P", "Q", "R", "S", "T", "U", "V", "W", "X", "Y", "Z", "_"}
IsDigit(c) == c \in {"0", "1", "2", "3", "4", "5", "6", "7", "8", "9"}

\* A POSIX identifier: letters, digits and "_", not starting with a digit.
IsIdentifier(k) ==
    /\ Len(k) > 0
    /\ IsLetter(k[1])
    /\ \A i \in 1..Len(k) : IsLetter(k[i]) \/ IsDigit(k[i])

\* A non-empty value made of letters, digits and _ @ % + = : , . / - only.
IsPlainValue(v) ==
    /\ Len(v) > 0
    /\ \A i \in 1..Len(v) :
          IsLetter(v[i]) \/ IsDigit(v[i])
          \/ v[i] \in {"@", "%", "+", "=", ":", ",", ".", "/", "-"}

\* C7 as stated: for every Environment built from a mapping, export followed
\* by a literal-mode construction from the exported file yields a mapping
\* equal to the original.
C7_RoundTripAnyValue ==
    (env_pc = "reloaded" /\ arg.kind = "dict") => AsMap(reloaded) = AsMap(data)

\* C7 amended: the round trip yields an equal mapping when every key is an
\* identifier and every value is non-empty and holds only characters that
\* shlex.quote leaves unquoted (":" among them, a space not).
C7_RoundTripPlainValues ==
    (/\ env_pc = "reloaded"
     /\ arg.kind = "dict"
     /\ \A i \in 1..Len(arg.map) :
           IsIdentifier(arg.map[i][1]) /\ IsPlainValue(arg.map[i][2]))
    => AsMap(reloaded) = AsMap(data)

\* Two entries, one of them a ":"-joined list, have made the round trip.
C7_Witness ==
    /\ env_pc = "reloaded"
    /\ arg.kind = "dict"
    /\ Len(arg.map) = 2
    /\ \A i \in 1..Len(arg.map) :
          IsIdentifier(arg.map[i][1]) /\ IsPlainValue(arg.map[i][2])
    /\ \E i \in 1..Len(arg.map) : \E j \in 1..Len(arg.map[i][2]) :
          arg.map[i][2][j] = ":"

\* The position of the first occurrence of x in list q.
FirstIndex(q, x) == CHOOSE i \in 1..Len(q) : q[i] = x /\ \A j \in 1..(i - 1) : q[j] # x

\* out is inp with every repeated segment removed and the rest in the order
\* of their first occurrence in inp.
IsDedupOf(out, inp) ==
    LET o == Split(out, ":")
        n == Split(inp, ":")
    IN  /\ \A i, j \in 1..Len(o) : i # j => o[i] # o[j]
        /\ {o[i] : i \in 1..Len(o)} = {n[i] : i \in 1..Len(n)}
        /\ \A i, j \in 1..Len(o) : i < j => FirstIndex(n, o[i]) < FirstIndex(n, o[j])

\* C8: deduplicate_list leaves each distinct segment once, in the order of
\* first occurrence, changes no other key, leaves an absent key absent, and
\* a second call changes nothing.
C8_DedupIdempotentFirstSeen ==
    Len(dedup_hist) >= 2 =>
        LET before == dedup_hist[1]
            after == dedup_hist[2]
        IN  /\ IF Has(before, dedup_key)
               THEN /\ Len(after) = Len(before)
                    /\ \A i \in 1..Len(before) :
                          /\ after[i][1] = before[i][1]
                          /\ IF before[i][1] = dedup_key
                             THEN IsDedupOf(after[i][2], before[i][2])
                             ELSE after[i][2] = before[i][2]
               ELSE after = before
            /\ \A i \in 3..Len(dedup_hist) : dedup_hist[i] = after

\* deduplicate_list has run twice on a value of three or more segments in
\* which the empty segment occurs twice.
C8_Witness ==
    /\ Len(dedup_hist) >= 3
    /\ Has(dedup_hist[1], dedup_key)
    /\ LET n == Split(Get(dedup_hist[1], dedup_key), ":")
       IN  /\ Len(n) >= 3
           /\ \E i, j \in 1..Len(n) : i # j /\ n[i] = <<>> /\ n[j] = <<>>
           /\ \E i \in 1..Len(n) : n[i] # <<>>

\* The constructor has returned and nothing has been called on the instance.
JustConstructed == env_pc = "constructed" /\ dedup_hist = <<>>

\* Two files were given and both define the same variable.
BothDefine ==
    /\ arg.kind = "list"
    /\ Len(arg.files) = 2
    /\ arg.files[1].assigns[1][1] = arg.files[2].assigns[1][1]

EndsWithPATH(k) == Len(k) >= 4 /\ SubSeq(k, Len(k) - 3, Len(k)) = K_PATH

\* C10: after construction from two or more files, no path-like variable
\* (name ending in PATH) contains a segment twice.
C10_PathLikeDeduplicated ==
    (JustConstructed /\ arg.kind = "list" /\ Len(arg.files) >= 2) =>
        \A i \in 1..Len(data) :
            EndsWithPATH(data[i][1]) =>
                LET o == Split(data[i][2], ":") IN
                \A a, b \in 1..Len(o) : a # b => o[a] # o[b]

----------------------------------------------------------------------------
(* Properties of the Engine operations                                     *)

Idx(ev) == {i \in DOMAIN log : log[i].ev = ev}
HasEvent(ev) == Idx(ev) # {}
Whos(ev) ==
    LET Is(x) == x.ev = ev
        q == SelectSeq(log, Is)
    IN  [i \in DOMAIN q |-> q[i].who]

\* The operation found an export snapshot and was told to use the cache.
CacheHit ==
    /\ op.use_cache
    /\ dir0.exists
    /\ "environment_all.sh.env" \in DOMAIN dir0.files

RecursiveShell ==
    /\ op.name = "shell"
    /\ Has(os_environ, K_CLOE_SHELL)
    /\ op.abort_recursive_shell

\* C1: when shell is invoked by a process that has CLOE_SHELL set and
\* abort_recursive_shell is true, the process image is never replaced and a
\* process that exits does so with code 2, with and without the cache.
C1_RecursiveShellNeverReplaces ==
    RecursiveShell =>
        /\ pc \notin {"execvpe", "replaced"}
        /\ ~HasEvent("execvpe")
        /\ pc = "exited" => exit_status = 2

\* The recursion guard is passed: shell with the cache, the guard active and
\* CLOE_SHELL set has replaced the process image.
C1_Witness ==
    /\ RecursiveShell
    /\ CacheHit
    /\ pc = "replaced"
    /\ Has(env, K_CLOE_SHELL)

PreparesRuntimeEnv == op.name \in {"exec", "shell", "activate"}

\* The install step is invoked exactly on a cache miss, on a runtime
\* directory removed and recreated empty.
InstallIffMiss ==
    /\ pc \notin {"idle", "prepare_runtime_env", "clean", "mkdir", "conan"} =>
          (HasEvent("install") <=> ~CacheHit)
    /\ pc = "conan" =>
          /\ runtime_dir = [exists |-> TRUE, files |-> <<>>]
          /\ dir0.exists => HasEvent("rmtree")
          /\ \A i \in Idx("mkdir") : \A j \in Idx("rmtree") : j < i
    /\ \A i \in Idx("install") : \A j \in Idx("mkdir") : j < i

OnlyActivateAllSourced == Names(Whos("source")) \subseteq {"activate_all.sh"}

\* C3 as stated: for exec, shell and activate the install step is invoked
\* iff not (use_cache and the snapshot exists), on a directory removed and
\* recreated; when it is not invoked no file of the runtime directory is
\* removed or written and only activate_all.sh is sourced.
C3_CacheHitTouchesNoFile ==
    PreparesRuntimeEnv =>
        /\ InstallIffMiss
        /\ CacheHit =>
              /\ runtime_dir = dir0
              /\ ~HasEvent("rmtree") /\ ~HasEvent("mkdir") /\ ~HasEvent("write")
              /\ OnlyActivateAllSourced

\* C3: for exec, shell and activate the install step is invoked iff not
\* (use_cache and the snapshot exists), on a directory removed and recreated;
\* when it is not invoked nothing is removed, only activate_all.sh is sourced,
\* and the directory is as found until the operation rewrites the snapshot
\* environment_all.sh.env, the only file it changes besides the copy of a
\* relayed anonymous file.
C3_CacheHitRewritesOnlySnapshot ==
    PreparesRuntimeEnv =>
        /\ InstallIffMiss
        /\ CacheHit =>
              /\ pc \in {"source_all", "write_runtime_env"} => runtime_dir = dir0
              /\ ~HasEvent("rmtree") /\ ~HasEvent("mkdir")
              /\ Names(Whos("write")) \subseteq {"environment_all.sh.env", RelayName}
              /\ runtime_dir.exists
              /\ DOMAIN dir0.files \subseteq DOMAIN runtime_dir.files
              /\ DOMAIN runtime_dir.files \subseteq DOMAIN dir0.files \cup {RelayName}
              /\ \A n \in DOMAIN dir0.files \ {"environment_all.sh.env", RelayName} :
                    runtime_dir.files[n] = dir0.files[n]
              /\ OnlyActivateAllSourced

\* exec with the cache and extra install arguments ended without an install,
\* and the snapshot it found has other content now.
C3_Witness ==
    /\ op.name = "exec"
    /\ CacheHit
    /\ op.conan_args # <<>>
    /\ pc = "exited"
    /\ HasEvent("ended")
    /\ ~HasEvent("install")
    /\ runtime_dir.files["environment_all.sh.env"] # dir0.files["environment_all.sh.env"]

\* The returncode the ended target was given.
ChildCode == log[CHOOSE i \in Idx("ended") : TRUE].code

\* C4: the result exec returns carries the returncode of the target, the
\* teardown hooks leave it alone, and for every exit code 0..255 of the target
\* the exec command ends the process with that exit status.
C4_ExitCodeUnchanged ==
    op.name = "exec" /\ HasEvent("ended") =>
        /\ result = ChildCode
        /\ pc = "exited" /\ ChildCode \in 0..255 => exit_status = ChildCode

\* The exec command ended with status 255, that of its target, after two
\* teardown hooks.
C4_Witness ==
    /\ op.name = "exec"
    /\ pc = "exited"
    /\ HasEvent("ended")
    /\ ChildCode = 255
    /\ exit_status = 255
    /\ Cardinality(Idx("teardown")) = 2

\* C5: in exec the overrides are applied before any setup() hook runs, every
\* setup() hook sees the environment the target is started with, and the steps
\* come in the order environment hooks, overrides, setup hooks, start of the
\* target, teardown hooks, return.
C5_OverridesBeforeSetup ==
    op.name = "exec" =>
        /\ \A i \in Idx("environment") : \A j \in Idx("override") : i < j
        /\ \A i \in Idx("override") : \A j \in Idx("setup") : i < j
        /\ \A i \in Idx("setup") : \A j \in Idx("spawn") :
              i < j /\ log[i].env = log[j].env
        /\ \A i \in Idx("spawn") : \A j \in Idx("teardown") : i < j
        /\ \A i \in Idx("teardown") : \A j \in Idx("exit") : i < j

\* A setup() hook ran before the override of VTD_ROOT was applied and saw
\* another value than the target was started with.
C5_Witness ==
    /\ op.name = "exec"
    /\ pc = "returned"
    /\ \E i \in Idx("setup"), j \in Idx("override"), k \in Idx("spawn") :
          /\ i < j
          /\ j < k
          /\ Has(log[k].env, K_VTD_ROOT)
          /\ Get(log[k].env, K_VTD_ROOT) = <<"o">>
          /\ log[i].env # log[k].env

\* The argument the target is to be given for an argument of exec.
RelayedArg(a) ==
    IF IsAnonymousFile(a)
    THEN RuntimeDirPath \o <<"/">> \o Replace(a, "/", "_")
    ELSE a

\* exec has come to the start of the target with an engine that exists.
TargetStartable ==
    /\ op.name = "exec"
    /\ op.args # <<>>
    /\ Has(env, K_CLOE_ENGINE)
    /\ IsExecutable(Get(env, K_CLOE_ENGINE))

\* C11: with relaying on, exec starts the target with every argument that
\* names an anonymous file replaced by the path of its copy in the runtime
\* directory (each / of the argument turned into _), the copy holding the
\* content of the descriptor, and with every other argument unchanged in its
\* position.
C11_AnonymousArgsRelayed ==
    TargetStartable =>
        \E i \in Idx("spawn") :
            /\ Len(log[i].cmd) = Len(op.args) + 1
            /\ \A k \in 1..Len(op.args) :
                  /\ log[i].cmd[k + 1].s = RelayedArg(op.args[k])
                  /\ IsAnonymousFile(op.args[k]) =>
                        LET n == Str(Replace(op.args[k], "/", "_")) IN
                        /\ n \in DOMAIN runtime_dir.files
                        /\ runtime_dir.files[n].text = FdContent

\* exec was given /dev/fd/3 among its arguments, wrote the copy _dev_fd_3 and
\* ended with TypeError without starting the target.
C11_Witness ==
    /\ TargetStartable
    /\ op.args = RelayArgs
    /\ pc = "raised"
    /\ eng_raised = "TypeError"
    /\ RelayName \in DOMAIN runtime_dir.files
    /\ runtime_dir.files[RelayName].text = FdContent
    /\ ~HasEvent("spawn")

\* d is a proper ancestor of e.
ProperAncestor(d, e) ==
    /\ d.abs = e.abs
    /\ Len(d.parts) < Len(e.parts)
    /\ SubSeq(e.parts, 1, Len(d.parts)) = d.parts

\* The members of D without a proper descendant in D.
Leaves(D) == {d \in D : ~\E e \in D : ProperAncestor(d, e)}

\* C12: for the set D of the directories deploy put files in, the directories
\* uninstall.sh is written from are exactly the members of D that have no
\* proper descendant in D, in whatever order the set is gone through.
C12_ManifestKeepsLeaves ==
    uninstaller.written =>
        uninstaller.dirs = Leaves(InstallDirs(uninstaller.files))

\* deploy installed files in bin, bin/s and bin/s/t only, and of these three
\* directories only bin/s/t is left in the manifest.
C12_Witness ==
    /\ op.name = "deploy"
    /\ pc = "returned"
    /\ uninstaller.written
    /\ InstallDirs(uninstaller.files) =
          {Under(dest.path, <<"bin">>), Under(dest.path, <<"bin", "s">>),
           Under(dest.path, <<"bin", "s", "t">>)}
    /\ uninstaller.dirs = {Under(dest.path, <<"bin", "s", "t">>)}

\* A command has ended after its Configuration raised ConfigurationError.
EndedOnConfigurationError ==
    /\ pc = "exited"
    /\ eng_raised = "ConfigurationError"

\* C13: when a ConfigurationError is raised while a command runs, the error
\* is printed as a message, no traceback is printed and the process ends
\* with a status other than 0.
C13_ConfigurationErrorExitsNonZero ==
    EndedOnConfigurationError =>
        /\ \E i \in Idx("raise"), k \in Idx("stderr") :
              log[k].who = "Error: " \o log[i].who
        /\ ~HasEvent("traceback")
        /\ exit_status # 0

\* The config command ended on the unset EDITOR: the message was printed
\* without a traceback, and the status of the process is 0.
C13_Witness ==
    /\ EndedOnConfigurationError
    /\ op.name = "config"
    /\ \E k \in Idx("stderr") :
          log[k].who = "Error: environment variable EDITOR is unset"
    /\ ~HasEvent("traceback")
    /\ exit_status = 0

\* deploy ran the install step and the step ended with a non-zero status.
DeployInstallFailed ==
    /\ op.name = "deploy"
    /\ \E i \in Idx("install") : log[i].code # 0

\* C14: when the install step of deploy ends with a non-zero status, deploy
\* ends with ChildProcessError with the destination untouched: it is not
\* looked for or created, no file is copied, no RPATH is patched and
\* uninstall.sh is not written; the deploy command then exits with status 1.
C14_DeployInstallFailureTouchesNothing ==
    DeployInstallFailed =>
        /\ eng_raised = "ChildProcessError"
        /\ pc \in {"raised", "exited"}
        /\ pc = "exited" => exit_status = 1
        /\ dest = NoDest
        /\ uninstaller = NoUninstaller
        /\ "uninstall.sh" \notin DOMAIN runtime_dir.files
        /\ \A ev \in {"mkdir_dest", "copy", "patch_rpath", "traceback"} : ~HasEvent(ev)

\* The deploy command has exited with status 1 after its install step
\* failed.
C14_Witness ==
    /\ DeployInstallFailed
    /\ pc = "exited"
    /\ exit_status = 1
    /\ eng_raised = "ChildProcessError"
    /\ dest = NoDest

\* The script of the install step that _write_cloe_env sources.
HasRunScript ==
    \E n \in {"conanrun.sh", "activate_run.sh"} : n \in DOMAIN runtime_dir.files

RunScript ==
    IF "conanrun.sh" \in DOMAIN runtime_dir.files
    THEN runtime_dir.files["conanrun.sh"] ELSE runtime_dir.files["activate_run.sh"]

\* The entries of PATH in the environment the script gives.
MaterializedPath ==
    IF Has(RunScript.assigns, K_PATH)
    THEN Split(Get(RunScript.assigns, K_PATH), Sep) ELSE <<>>

\* _write_cloe_env has sourced the script of this operation's install step.
EnvironmentMaterialized ==
    /\ HasEvent("install")
    /\ HasRunScript
    /\ RunScript.rc = 0
    /\ pc \notin {"conan", "write_cloe_env"}

\* C15: CLOE_ENGINE in environment_cloe.sh.env is the engine in the first
\* entry of PATH that holds one; when no entry of PATH holds one the
\* operation has ended with exit code 2 with neither environment_cloe.sh.env
\* nor the snapshot written, no target started and no shell executed.
C15_EngineFromFirstPathEntry ==
    EnvironmentMaterialized =>
        LET dirs == MaterializedPath
            files == runtime_dir.files
        IN  /\ "environment_cloe.sh.env" \in DOMAIN files =>
                  \E i \in 1..Len(dirs) :
                     /\ dirs[i] \in EngineDirs
                     /\ \A j \in 1..(i - 1) : dirs[j] \notin EngineDirs
                     /\ Get(files["environment_cloe.sh.env"].assigns, K_CLOE_ENGINE)
                           = dirs[i] \o EngineName
            /\ (\A i \in 1..Len(dirs) : dirs[i] \notin EngineDirs) =>
                  /\ pc = "exited"
                  /\ exit_status = 2
                  /\ "environment_cloe.sh.env" \notin DOMAIN files
                  /\ "environment_all.sh.env" \notin DOMAIN files
                  /\ ~HasEvent("spawn")
                  /\ ~HasEvent("execvpe")

\* PATH is /e:/f, both holding an engine, and CLOE_ENGINE was written as
\* /e/cloe-engine.
C15_Witness ==
    /\ EnvironmentMaterialized
    /\ MaterializedPath = << <<"/", "e">>, <<"/", "f">> >>
    /\ "environment_cloe.sh.env" \in DOMAIN runtime_dir.files
    /\ Get(runtime_dir.files["environment_cloe.sh.env"].assigns, K_CLOE_ENGINE)
          = <<"/", "e">> \o EngineName

\* PATH is /x, which holds no engine, and the operation exited with 2
\* without environment_cloe.sh.env.
C15_WitnessNoEngine ==
    /\ EnvironmentMaterialized
    /\ MaterializedPath = << <<"/", "x">> >>
    /\ pc = "exited"
    /\ exit_status = 2
    /\ \E i \in Idx("exit") : log[i].who = "no engine"
    /\ "environment_cloe.sh.env" \notin DOMAIN runtime_dir.files

\* The install step of this operation succeeded and _write_cloe_env found
\* neither conanrun.sh nor activate_run.sh in the runtime directory.
RequiredFileMissing ==
    /\ \E i \in Idx("install") : log[i].code = 0
    /\ ~HasRunScript
    /\ pc # "write_cloe_env"

\* C16: when neither conanrun.sh nor activate_run.sh exists after the
\* install step, the operation goes no further and the process ends with
\* exit code 2.
C16_MissingRunScriptExitsWith2 ==
    RequiredFileMissing =>
        /\ pc \in {"raised", "exited"}
        /\ pc = "exited" => exit_status = 2

\* The install step left no script: _write_cloe_env raised RuntimeError,
\* which nothing caught, and the process ended with the traceback and
\* status 1.
C16_Witness ==
    /\ RequiredFileMissing
    /\ pc = "exited"
    /\ eng_raised = "RuntimeError"
    /\ HasEvent("traceback")
    /\ exit_status = 1

\* The clean command has run Engine.clean.
CleanDone ==
    /\ op.name = "clean"
    /\ pc \notin {"idle", "clean"}

\* C17: after clean the runtime directory does not exist and clean has
\* returned without an error; when the directory did not exist before,
\* clean has done nothing at all.
C17_CleanIdempotent ==
    CleanDone =>
        /\ pc = "returned"
        /\ eng_raised = "none"
        /\ ~runtime_dir.exists
        /\ ~dir0.exists => (runtime_dir = dir0 /\ log = <<>>)

\* clean has returned from a call with the runtime directory absent.
C17_Witness ==
    /\ CleanDone
    /\ pc = "returned"
    /\ ~dir0.exists
    /\ runtime_dir = dir0

\* clean has removed a runtime directory that held a snapshot.
C17_WitnessRemoved ==
    /\ CleanDone
    /\ pc = "returned"
    /\ dir0.exists
    /\ "environment_all.sh.env" \in DOMAIN dir0.files
    /\ ~runtime_dir.exists

\* The index of the write of file n in the log, 0 if there is none.
WriteIdx(n) ==
    IF \E i \in Idx("write") : log[i].who = n
    THEN CHOOSE i \in Idx("write") : log[i].who = n
    ELSE 0

\* C18: in shell, the rc files and the snapshot are written and the
\* environment() hook of every plugin setup is run before the process image
\* is replaced; the replacement is the last thing the operation does, no
\* setup() or teardown() hook is ever run, and shell does not return.
C18_ShellReplacesLast ==
    op.name = "shell" =>
        /\ pc # "returned"
        /\ ~HasEvent("setup")
        /\ ~HasEvent("teardown")
        /\ pc = "replaced" <=> HasEvent("execvpe")
        /\ \A x \in Idx("execvpe") :
              /\ x = Len(log)
              /\ WriteIdx("environment_all.sh.env") \in 1..(x - 1)
              /\ \A n \in {".bashrc", ".zshrc"} :
                    /\ n \in DOMAIN runtime_dir.files
                    /\ ~CacheHit => WriteIdx(n) \in 1..(x - 1)
              /\ Whos("environment") = plugin_setups
              /\ \A i \in Idx("environment") \cup Idx("write") : i < x

\* shell wrote the rc files and the snapshot, ran the environment() hooks of
\* two plugin setups and then replaced the process image.
C18_Witness ==
    /\ op.name = "shell"
    /\ pc = "replaced"
    /\ Len(plugin_setups) = 2
    /\ Whos("environment") = plugin_setups
    /\ WriteIdx(".bashrc") > 0
    /\ WriteIdx("environment_all.sh.env") > WriteIdx(".bashrc")
    /\ log[Len(log)].ev = "execvpe"

\* C19: the target is started only by exec, the process image is replaced
\* only by shell, and setup() and teardown() hooks are run only by exec;
\* prepare, activate, deploy and clean do none of these.
C19_OnlyExecSpawnsOnlyShellReplaces ==
    /\ (HasEvent("spawn") \/ HasEvent("ended")) => op.name = "exec"
    /\ (HasEvent("setup") \/ HasEvent("teardown")) => op.name = "exec"
    /\ (HasEvent("execvpe") \/ pc \in {"execvpe", "replaced"}) => op.name = "shell"
    /\ pc \in {"setup", "override", "spawn", "teardown"} => op.name = "exec"

\* exec ran setup() hooks, started the target and ran teardown() hooks.
C19_Witness ==
    /\ op.name = "exec"
    /\ HasEvent("setup")
    /\ HasEvent("spawn")
    /\ HasEvent("teardown")
    /\ ~HasEvent("execvpe")

\* activate and deploy have returned having started nothing, replaced
\* nothing and run no hook.
C19_WitnessActivate ==
    /\ op.name = "activate"
    /\ pc = "returned"
    /\ HasEvent("print")
    /\ \A ev \in {"spawn", "execvpe", "setup", "teardown", "environment"} : ~HasEvent(ev)

C19_WitnessDeploy ==
    /\ op.name = "deploy"
    /\ pc = "returned"
    /\ uninstaller.written
    /\ \A ev \in {"spawn", "execvpe", "setup", "teardown", "environment"} : ~HasEvent(ev)

\* exec or shell has been through _prepare_plugin_setups.
SetupsPrepared ==
    /\ op.name \in {"exec", "shell"}
    /\ WriteIdx("environment_all.sh.env") > 0
    /\ pc # "plugin_setups"

\* The setups the setup files found in the plugin directories define.
SetupsFound == LoadAll(ExtractPluginPaths(env), plugin_files)

\* C20: in every operation, a later one of the same process included, the
\* plugin setups are exactly those the setup files found in the plugin
\* directories define, each instantiated once, and environment(), setup()
\* and teardown() are called on them in that same order.
C20_SetupsDiscoveredFresh ==
    SetupsPrepared =>
        /\ plugin_setups = SetupsFound
        /\ \A i, j \in DOMAIN plugin_setups :
              plugin_setups[i] = plugin_setups[j] => i = j
        /\ Whos("environment") = plugin_setups
        /\ HasEvent("spawn") => Whos("setup") = plugin_setups
        /\ HasEvent("teardown") => Whos("teardown") = plugin_setups

\* The second operation of a process found no setup file and yet ran the
\* environment() hooks of the two setups of the first operation.
C20_Witness ==
    /\ SetupsPrepared
    /\ op.nth = 2
    /\ plugin_files = <<>>
    /\ SetupsFound = <<>>
    /\ plugin_setups = <<"sumo", "vtd">>
    /\ Whos("environment") = plugin_setups

\* The second operation found the same two setup files and instantiated
\* four setups, two of each name.
C20_WitnessTwice ==
    /\ SetupsPrepared
    /\ op.nth = 2
    /\ SetupsFound = <<"sumo", "vtd">>
    /\ plugin_setups = <<"sumo", "vtd", "sumo", "vtd">>

\* The first operation of a process found two setup files and used no
\* setup: the collector ran before the subclasses were listed.
C20_WitnessCollected ==
    /\ SetupsPrepared
    /\ op.nth = 1
    /\ SetupsFound = <<"sumo", "vtd">>
    /\ plugin_setups = <<>>

\* The allow-list of the Environment _prepare_runtime_env constructs.
AllowList == IF op.preserve_env THEN KeysOf(os_environ) ELSE DefaultPreserve

\* C21: the child shell an Environment sources its files in starts with
\* nothing but the default PATH and the variables of the parent process
\* whose names match the allow-list of that Environment, whatever other
\* Environments the process constructed before.
C21_ShellEnvOnlyAllowed ==
    HasEvent("source") =>
        \A i \in DOMAIN shell_env :
            \/ shell_env[i] = ClassShellEnv[1]
            \/ /\ PreserveMatches(AllowList, shell_env[i][1])
               /\ Has(os_environ, shell_env[i][1])
               /\ Get(os_environ, shell_env[i][1]) = shell_env[i][2]

\* The second operation of a process, without preserve_env, has sourced
\* activate_all.sh in a shell that was given SECRET, which the first
\* operation, with preserve_env, had put into the class-level _shell_env.
C21_Witness ==
    /\ op.nth = 2
    /\ ~op.preserve_env
    /\ HasEvent("source")
    /\ Has(shell_env, K_SECRET)
    /\ ~PreserveMatches(AllowList, K_SECRET)

----------------------------------------------------------------------------
(* Properties of init_from_str on any text                                 *)

\* An Environment has been constructed from one file of text read literally.
TextParsed ==
    /\ arg \in TextArgs
    /\ env_pc = "constructed"

\* The lines of the text.
LinesOf(text) == Split(text, "\n")

HasEq(l) == \E i \in 1..Len(l) : l[i] = "="

\* The position of the first "=" of a line that has one.
FirstEq(l) == CHOOSE i \in 1..Len(l) : l[i] = "=" /\ \A j \in 1..(i - 1) : l[j] # "="

\* A line that defines a key: not blank, not a comment, with an "=".
Defines(l) == ~IsBlank(l) /\ ~StartsWithHash(l) /\ HasEq(l)

\* C22: each line is split at its first "=", blank lines and lines that
\* begin with "#" define nothing, and a line without "=" sets no key, leaves
\* the keys set before as they are and does not end the parsing: the keys
\* are those of the defining lines, each with the value of the last line
\* that defines it.
C22_ParseSplitsAtFirstEq ==
    TextParsed =>
        LET ls == LinesOf(arg.files[1].text)
            D == {i \in 1..Len(ls) : Defines(ls[i])}
            KeyAt(i) == SubSeq(ls[i], 1, FirstEq(ls[i]) - 1)
            ValAt(i) == SubSeq(ls[i], FirstEq(ls[i]) + 1, Len(ls[i]))
        IN  /\ raised = "none"
            /\ \A n \in 1..Len(data) : \E i \in D : data[n][1] = KeyAt(i)
            /\ \A i \in D :
                  /\ Has(data, KeyAt(i))
                  /\ (\A j \in D : j > i => KeyAt(j) # KeyAt(i)) =>
                        Get(data, KeyAt(i)) = ValAt(i)

\* The text K=b=c, J, L='b': K is b=c, the line J set nothing and L, after
\* it, is set.
C22_Witness ==
    /\ TextParsed
    /\ LinesOf(arg.files[1].text) =
          << <<"K", "=", "b", "=", "c">>, <<"J">>, <<"L", "=", "'", "b", "'">> >>
    /\ data = << <<<<"K">>, <<"b", "=", "c">> >>, <<<<"L">>, <<"'", "b", "'">> >> >>

RECURSIVE LStrip(_)
LStrip(l) == IF Len(l) > 0 /\ l[1] \in Whitespace THEN LStrip(Tail(l)) ELSE l

RECURSIVE RStrip(_)
RStrip(l) ==
    IF Len(l) > 0 /\ l[Len(l)] \in Whitespace
    THEN RStrip(SubSeq(l, 1, Len(l) - 1)) ELSE l

\* line.strip()
Strip(l) == RStrip(LStrip(l))

\* C23: each line is interpreted with the whitespace at its start and end
\* taken off, so that "  K=V  " sets K to V; quotes in a value are kept.
C23_LinesTrimmed ==
    TextParsed =>
        LET ls == LinesOf(arg.files[1].text)
            D == {i \in 1..Len(ls) : Defines(Strip(ls[i]))}
            KeyAt(i) == SubSeq(Strip(ls[i]), 1, FirstEq(Strip(ls[i])) - 1)
            ValAt(i) == SubSeq(Strip(ls[i]), FirstEq(Strip(ls[i])) + 1,
                               Len(Strip(ls[i])))
        IN  /\ \A n \in 1..Len(data) : \E i \in D : data[n][1] = KeyAt(i)
            /\ \A i \in D :
                  /\ Has(data, KeyAt(i))
                  /\ (\A j \in D : j > i => KeyAt(j) # KeyAt(i)) =>
                        Get(data, KeyAt(i)) = ValAt(i)

\* The one line " K=a " has set the key " K" to "a ", blanks included, and
\* no key K.
C23_Witness ==
    /\ TextParsed
    /\ arg.files[1].text = <<" ", "K", "=", "a", " ">>
    /\ data = << << <<" ", "K">>, <<"a", " ">> >> >>
    /\ ~Has(data, <<"K">>)

\* The quotes of L='b' are part of the value of L.
C23_WitnessQuotes ==
    /\ TextParsed
    /\ arg.files[1].text = <<"L", "=", "'", "b", "'">>
    /\ Get(data, <<"L">>) = <<"'", "b", "'">>

----------------------------------------------------------------------------
(* Properties of path_prepend                                              *)

\* C24: after path_prepend(key, v) get_list(key) is v followed by the
\* segments the key held before, in their order, and v alone when the key
\* was not set.
C24_PrependPutsValueFirst ==
    env_pc = "prepended" =>
        GetList(data, prepend.key) =
            <<prepend.value>> \o
            (IF Has(prepend.before, prepend.key)
             THEN Split(Get(prepend.before, prepend.key), Sep) ELSE <<>>)

\* PATH was a:b and path_prepend("PATH", "v") has made it ":va:b", the list
\* of "", "va" and "b".
C24_Witness ==
    /\ env_pc = "prepended"
    /\ prepend.key = K_PATH
    /\ prepend.value = <<"v">>
    /\ Has(prepend.before, K_PATH)
    /\ Get(prepend.before, K_PATH) = <<"a", ":", "b">>
    /\ GetList(data, K_PATH) = << <<>>, <<"v", "a">>, <<"b">> >>

\* The key was not set and get_list is the value alone.
C24_WitnessAbsent ==
    /\ env_pc = "prepended"
    /\ ~Has(prepend.before, prepend.key)
    /\ GetList(data, prepend.key) = <<prepend.value>>

\* The log entries of patch_binary_files_rpath, one per file it went through
PatchIdx == {i \in 1..Len(log) : log[i].ev = "patch_rpath"}

\* The file, as deploy copied it, that a patch entry is about
PatchedFile(i) ==
    CHOOSE f \in DOMAIN dest.elf : JoinStr(f, "/") = log[i].who

\* The new entries deploy asks for in the directory a file is in
NewEntries(f) == IF f[1] = "bin" THEN <<"$ORIGIN/../lib">> ELSE <<"$ORIGIN/..">>

\* C25: every ELF file that patch_binary_files_rpath rewrites gets the new
\* entries followed by its own original search path (the new entries alone
\* when it had none), whatever files were patched before it, and a file that
\* is not an ELF executable is not written.
C25_RpathIsNewThenOwnOriginal ==
    \A i \in PatchIdx :
        LET f == PatchedFile(i)
            k == dest.elf[f]
        IN  /\ ~k.elf => log[i].cmd = <<"not ELF", "">>
            /\ (k.elf /\ ~k.fails) =>
                   log[i].cmd = <<"set",
                                  JoinStr(NewEntries(f) \o
                                          (IF k.original = "" THEN <<>> ELSE <<k.original>>),
                                          ":")>>

\* C25 witness: a second ELF file was rewritten after one that had a search
\* path of its own.
C25_Witness ==
    \E i, j \in PatchIdx :
        /\ i < j
        /\ log[i].who = "bin/x" /\ log[j].who = "bin/s/x"
        /\ dest.elf[<<"bin", "x">>].original = "p"
        /\ log[i].cmd = <<"set", "$ORIGIN/../lib:p">>
        /\ log[j].cmd = <<"set", "$ORIGIN/../lib:p:q">>

\* C25: the first file of a directory, and a file that is not ELF, come out
\* as described.
C25_WitnessFirst ==
    \E i, j \in PatchIdx :
        /\ log[i].who = "bin/s/x" /\ log[i].cmd = <<"set", "$ORIGIN/../lib:q">>
        /\ log[j].who = "bin/x" /\ log[j].cmd = <<"not ELF", "">>

\* deploy's patching met a file whose search path could not be set
PatchFailed ==
    /\ op.name = "deploy"
    /\ \E i \in PatchIdx : log[i].cmd[1] = "CalledProcessError"

\* patch_binary_files_rpath went through every file copied below dest/sub
AllAttempted(sub) ==
    \A n \in DOMAIN CopiedUnder(sub) :
        \E i \in PatchIdx : log[i].who = JoinStr(CopiedUnder(sub)[n], "/")

\* C26: a file that cannot be patched during deploy is logged and passed
\* over: the exception does not leave the loop, every other binary file of
\* the directory is still gone through, the second directory is patched as
\* well when it is there, and a deploy that returns has written uninstall.sh.
C26_PatchFailureNotFatal ==
    PatchFailed =>
        /\ eng_raised \in {"none", "FileNotFoundError"}
        /\ AllAttempted(<<"bin">>)
        /\ DirExists(<<"lib", "cloe">>) =>
               /\ AllAttempted(<<"lib", "cloe">>)
               /\ pc \in {"deploy_uninstaller", "returned"}
        /\ pc = "returned" => uninstaller.written

\* C26 witness: the second of three files of bin could not be patched, the
\* third and the one of lib/cloe were patched after it, and deploy returned
\* with uninstall.sh written.
C26_Witness ==
    /\ PatchFailed
    /\ \E i, j, k \in PatchIdx :
          /\ i < j /\ j < k
          /\ log[i].who = "bin/s/x" /\ log[i].cmd[1] = "CalledProcessError"
          /\ log[j].who = "bin/s/t/x" /\ log[j].cmd[1] = "set"
          /\ log[k].who = "lib/cloe/z" /\ log[k].cmd[1] = "set"
    /\ pc = "returned"
    /\ uninstaller.written

\* The variable mapping the snapshot in the runtime directory holds
SnapshotMap == Names(runtime_dir.files["environment_all.sh.env"].assigns)

\* C27: once exec has run the target program, the snapshot in the runtime
\* directory holds exactly the variable mapping the target was given, with
\* the changes of the environment() hooks and of the caller's overrides.
C27_SnapshotIsFinalEnvironment ==
    (op.name = "exec" /\ pc = "returned") =>
        \A i \in Idx("spawn") :
            /\ SnapshotExists
            /\ SnapshotMap = Names(log[i].env)

\* C27 witness: exec has returned, the target was run with the caller's
\* override of VTD_ROOT, and the snapshot is the environment as it was before
\* the hooks and the override.
C27_Witness ==
    /\ op.name = "exec" /\ pc = "returned"
    /\ op.override_env = << <<K_VTD_ROOT, <<"o">> >> >>
    /\ SnapshotExists
    /\ \E i \in Idx("spawn"), w \in Idx("write") :
          /\ <<K_VTD_ROOT, <<"o">> >> \in Names(log[i].env)
          /\ <<K_VTD_ROOT, <<"o">> >> \notin SnapshotMap
          /\ log[w].who = "environment_all.sh.env"
          /\ SnapshotMap = Names(log[w].env)

\* C27: a plugin's environment() hook changed the environment after the
\* snapshot was written.
C27_WitnessHook ==
    /\ op.name = "exec" /\ pc = "returned"
    /\ op.override_env = <<>>
    /\ SnapshotExists
    /\ \E i \in Idx("spawn") : SnapshotMap # Names(log[i].env)

\* uninstall.sh is in the runtime directory d
HasUninstaller(d) == d.exists /\ "uninstall.sh" \in DOMAIN d.files

\* C29: an operation other than clean that finds uninstall.sh in the runtime
\* directory leaves it there, at every step and with any cache setting.
C29_UninstallerStaysUntilClean ==
    (op.name # "clean" /\ HasUninstaller(dir0)) => HasUninstaller(runtime_dir)

\* C29 witness: an operation without the cache found uninstall.sh of an
\* earlier deploy, removed the runtime directory with it and made a new one.
C29_Witness ==
    /\ op.name \in {"exec", "shell", "activate", "prepare", "deploy"}
    /\ ~op.use_cache
    /\ HasUninstaller(dir0)
    /\ HasEvent("rmtree")
    /\ runtime_dir.exists
    /\ ~HasUninstaller(runtime_dir)

\* C29: deploy leaves no snapshot, so an operation asked to use the cache
\* rebuilds the runtime directory as well and removes uninstall.sh.
C29_WitnessCached ==
    /\ op.name # "clean" /\ op.use_cache
    /\ HasUninstaller(dir0)
    /\ HasEvent("rmtree")
    /\ ~HasUninstaller(runtime_dir)

\* An invocation met what it cannot meet alone: the directory it had just
\* removed was there again, the directory or the install step's scripts it
\* had written were gone, or files it had written were missing when it
\* sourced activate_all.sh.
Hazard(p) ==
    \/ conc[p].raised \in {"FileExistsError", "FileNotFoundError"}
    \/ /\ conc[p].raised = "RuntimeError"
       /\ conc[p].wrote \cap {"conanrun.sh", "activate_run.sh"} # {}
    \/ conc[p].missing # {}

\* C28: nothing keeps two invocations without the cache apart: whatever the
\* other one is doing, an invocation's next step that removes, creates or
\* fills the directory (clean, mkdir, the install step, writing the scripts)
\* can be taken; and an invocation fails on the directory or sources an
\* incomplete one only when the other removed or created the directory while
\* it was in the middle of its steps.
C28_NoMutualExclusion ==
    \A p \in Procs :
        /\ conc[p].pc = "clean" => ENABLED ConcClean(p)
        /\ conc[p].pc = "mkdir" => ENABLED ConcMkdir(p)
        /\ conc[p].pc = "conan" =>
               ENABLED (\E out \in ConanOutcomes : ConcConanInstall(p, out))
        /\ conc[p].pc = "write_scripts" => ENABLED ConcWriteScripts(p)
        /\ Hazard(p) => conc[p].disturbed

\* C28 witness: one invocation had the directory removed and made anew by
\* the other between its writes and its sourcing, and returned with an
\* environment sourced from a directory without the install step's script.
C28_Witness ==
    \E p \in Procs :
        /\ conc[p].pc = "returned"
        /\ conc[p].disturbed
        /\ "conanrun.sh" \in conc[p].missing
        /\ ~Has(conc[p].env, K_LD_LIBRARY_PATH)

\* C28: one invocation found the directory made by the other at its mkdir
\* and failed.
C28_WitnessFails ==
    \E p \in Procs, q \in Procs :
        /\ conc[p].raised = "FileExistsError"
        /\ conc[q].pc \notin {"clean", "mkdir", "raised"}

\* C28: the other invocation's clean came between an invocation's install
\* step and its _write_cloe_env.
C28_WitnessScriptsGone ==
    \E p \in Procs :
        /\ conc[p].raised = "RuntimeError"
        /\ "conanrun.sh" \in conc[p].wrote
        /\ conc[p].disturbed

RECURSIVE WrittenFrom(_, _)
\* All the text the steps of a program write to stream s
WrittenFrom(prog, s) ==
    IF Len(prog) = 0 THEN <<>>
    ELSE (IF prog[1].do = "write" /\ prog[1].to = s THEN prog[1].text ELSE <<>>)
         \o WrittenFrom(Tail(prog), s)

Written(s) == WrittenFrom(process.program, s)

RECURSIVE Flatten(_)
Flatten(lines) == IF Len(lines) = 0 THEN <<>> ELSE lines[1] \o Flatten(Tail(lines))

\* The entries of merged_output that came from stream s: the two streams
\* carry different letters.
MergedOf(s) ==
    SelectSeq(ts_result.merged_output,
              LAMBDA l : (l[1] = "x") <=> (s = "stderr"))

\* transient_system has returned.
TransientDone == ts_pc = "done"

\* C30: transient_system returns once both pipes have hung up and the child
\* has exited; each hang-up was counted once; and at return stdout_lines and
\* stderr_lines hold the lines the child wrote to each stream, each line once
\* and in order, merged_output holds them all, each once and in the order of
\* its stream, and return_code is the child's exit code.
C30_EveryLineOnce ==
    /\ ts_pc # "KeyError"
    /\ ts_pc \in {"wait", "done"} => (alive = 0 /\ registered = {})
    /\ TransientDone =>
          /\ hups = [s \in Streams |-> 1]
          /\ process.ip > Len(process.program)
          /\ ts_result.return_code = process.returncode
          /\ ts_result.stdout_lines = SplitLines(Written("stdout"))
          /\ ts_result.stderr_lines = SplitLines(Written("stderr"))
          /\ MergedOf("stdout") = ts_result.stdout_lines
          /\ MergedOf("stderr") = ts_result.stderr_lines

\* C30 witness: the child wrote the line "ab" in two pieces, the loop read
\* between them, and the one line is two entries of stdout_lines and of
\* merged_output.
C30_Witness ==
    /\ TransientDone
    /\ Written("stdout") = <<"a", "b", "\n">>
    /\ ts_result.stdout_lines = << <<"a">>, <<"b", "\n">> >>
    /\ ts_result.merged_output = << <<"a">>, <<"b", "\n">> >>

\* C30: a child whose pieces were read together, with lines on both streams.
C30_WitnessWhole ==
    /\ TransientDone
    /\ ts_result.stdout_lines = << <<"a", "b", "\n">> >>
    /\ ts_result.stderr_lines = << <<"x", "\n">> >>
    /\ ts_result.return_code = 3

\* Apart from where a line is cut, the loop is as described: no stream is
\* unregistered twice, the loop ends when both have hung up, nothing the
\* child wrote is lost or doubled, and the exit code is returned.
PollLoopSound ==
    /\ ts_pc # "KeyError"
    /\ ts_pc \in {"wait", "done"} => (alive = 0 /\ registered = {})
    /\ alive = Cardinality(registered)
    /\ TransientDone =>
          /\ hups = [s \in Streams |-> 1]
          /\ ts_result.return_code = process.returncode
          /\ Flatten(ts_result.stdout_lines) = Written("stdout")
          /\ Flatten(ts_result.stderr_lines) = Written("stderr")
          /\ MergedOf("stdout") = ts_result.stdout_lines
          /\ MergedOf("stderr") = ts_result.stderr_lines

============================================================================
